---- MODULE Spec2Model ----
(***************************************************************************)
(* Model of the capsule core of Spiral-portal-GXT: the memory recursion    *)
(* manager, the mesh orchestrator and the agent activator.                 *)
(*                                                                         *)
(* Numbers.  The program computes in floating point.  The model computes   *)
(* in fixed point: an integer n stands for n / Scale, so 1.0 is 1000 and   *)
(* 0.95 is 950.  Products are rescaled after each multiplication and       *)
(* divisions round towards minus infinity.  A magnitude below the search's *)
(* convergence threshold (1e-6) is below the grid and therefore exactly 0. *)
(*                                                                         *)
(* Time.  The wall clock is the integer now, in seconds.                   *)
(*                                                                         *)
(* Scheduling.  The program is single-threaded asyncio: a coroutine runs   *)
(* until it awaits asyncio.sleep.  Every action below is one such run,     *)
(* from one suspension point to the next.                                  *)
(***************************************************************************)
EXTENDS Integers, Sequences, FiniteSets, TLC

VARIABLES
    now,                \* wall clock of the memory manager, seconds
    recursion_layers,   \* MemoryRecursionManager.recursion_layers: depth -> fragments in insertion order
    active_recursions,  \* MemoryRecursionManager.active_recursions: recursion id -> state object
    rec_states,         \* the recursion state dictionaries, by allocation order
    rec_tasks,          \* the _execute_recursive_computation tasks, by creation order
    cleanup_due,        \* wake-up time of _background_cleanup
    calls,              \* number of external calls issued so far
    ret,                \* what the last operation returned or raised
    mesh_clock,         \* wall clock of the mesh, seconds
    orchestration_active, \* MeshOrchestrator.orchestration_active
    nodes,              \* MeshOrchestrator.nodes, in insertion order
    tasks,              \* MeshOrchestrator.tasks, in insertion order
    mesh_runs,          \* the _execute_mesh_task coroutines, one per task
    monitor,            \* the _heartbeat_monitor coroutine: position and wake-up time
    nodes_added,        \* number of add_mesh_node calls so far
    node_limit,         \* MeshOrchestrator.max_nodes, as configured
    agent_clock,        \* wall clock of the agent activator, seconds
    agents,             \* AgentActivator.agents: the registered agents, in insertion order
    agent_objs,         \* every Agent object made, with the position of its main loop
    agent_profiles,     \* AgentActivator.agent_profiles, in insertion order
    message_broker,     \* AgentActivator.message_broker
    lifecycle_due,      \* wake-up time of _agent_lifecycle_manager
    sent,               \* number of send_message calls so far
    terminated,         \* number of terminate calls of callers so far
    symbolic_fields,    \* SymbolicFieldComputer.symbolic_fields, in insertion order
    field_ret           \* what the last compute_field_at_vector returned

memVars == <<now, recursion_layers, active_recursions, rec_states, rec_tasks, cleanup_due, calls, ret>>

meshVars == <<mesh_clock, orchestration_active, nodes, tasks, mesh_runs, monitor, nodes_added, node_limit>>

agentVars == <<agent_clock, agents, agent_objs, agent_profiles, message_broker, lifecycle_due, sent, terminated>>

fieldVars == <<symbolic_fields, field_ret>>

vars == <<memVars, meshVars, agentVars, fieldVars>>

----------------------------------------------------------------------------
(* Fixed-point arithmetic *)

Scale == 10 ^ 3

Max(a, b) == IF a >= b THEN a ELSE b

Min(a, b) == IF a <= b THEN a ELSE b

Abs(a) == IF a >= 0 THEN a ELSE -a

\* F(e), with e evaluated once: the model checker evaluates an argument, or a
\* name of a LET, anew wherever it is used when it computes ENABLED
With(e, F(_)) == CHOOSE y \in {F(x) : x \in {e}} : TRUE

\* the largest r with r * r <= n, by bisection of lo..hi (lo * lo <= n < (hi+1) * (hi+1))
RECURSIVE SqrtSearch(_, _, _)
SqrtSearch(n, lo, hi) ==
    IF lo >= hi THEN lo
    ELSE With((lo + hi + 1) \div 2,
              LAMBDA mid : IF mid * mid <= n THEN SqrtSearch(n, mid, hi)
                           ELSE SqrtSearch(n, lo, mid - 1))

\* 46340 is the largest integer whose square fits the checker's integers
ISqrt(n) == SqrtSearch(n, 0, 46340)

RECURSIVE SumSeq(_)
SumSeq(s) == IF Len(s) = 0 THEN 0 ELSE Head(s) + SumSeq(Tail(s))

\* The sequence s with its elements evaluated: the checker evaluates
\* [i \in 1..n |-> e] anew at each application.
Eager(s) == s \o <<>>

\* the same for a function whose domain holds 0
EagerMap(f) == [f EXCEPT ![0] = f[0]]

\* the rank (1 = first) of each element of s in a stable sort by field k,
\* largest first (Python's sort with reverse=True keeps the order of equal keys)
Ranks(s) ==
    Eager([j \in 1..Len(s) |->
        1 + Cardinality({i \in 1..Len(s) : s[i].k > s[j].k \/ (s[i].k = s[j].k /\ i < j)})])

Arrange(s, rank) == Eager([p \in 1..Len(s) |-> s[CHOOSE j \in 1..Len(s) : rank[j] = p]])

SortDesc(s) == With(Ranks(s), LAMBDA rank : Arrange(s, rank))

\* the first n elements of s (Python's s[:n] for n >= 0)
Take(s, n) == SubSeq(s, 1, Min(n, Len(s)))

RemoveAt(s, i) == SubSeq(s, 1, i - 1) \o SubSeq(s, i + 1, Len(s))

Range(s) == {s[i] : i \in 1..Len(s)}

----------------------------------------------------------------------------
(* scrollmath_engine.py: ScrollVector *)

ScrollVector(x, y, z, t, s) == <<x, y, z, t, s>>

ZeroVector == ScrollVector(0, 0, 0, 0, 0)

VecSub(a, b) == <<a[1] - b[1], a[2] - b[2], a[3] - b[3], a[4] - b[4], a[5] - b[5]>>

\* the square of the distance of a and b
SquaredDistance(a, b) ==
    (a[1] - b[1]) * (a[1] - b[1]) + (a[2] - b[2]) * (a[2] - b[2]) + (a[3] - b[3]) * (a[3] - b[3])
        + (a[4] - b[4]) * (a[4] - b[4]) + (a[5] - b[5]) * (a[5] - b[5])

SumSquares(v) == v[1] * v[1] + v[2] * v[2] + v[3] * v[3] + v[4] * v[4] + v[5] * v[5]

magnitude(v) == With(SumSquares(v), ISqrt)

DivideBy(v, mag) ==
    IF mag = 0 THEN v
    ELSE <<(v[1] * Scale) \div mag, (v[2] * Scale) \div mag, (v[3] * Scale) \div mag,
           (v[4] * Scale) \div mag, (v[5] * Scale) \div mag>>

normalize(v) == With(magnitude(v), LAMBDA mag : DivideBy(v, mag))

----------------------------------------------------------------------------
(* memory_recursion_manager.py: fragments and layers *)

DaySeconds == 86400

\* MemoryRecursionManager.__init__: the configuration defaults
max_recursion_depth == 10

fragment_lifetime_days == 30

coherence_threshold == 500

auto_cleanup_interval == 3600

Depths == 0..(max_recursion_depth - 1)

\* MemoryFragment; content is part of the id (its hash), the id is <<content, second>>
MemoryFragment(id, vec, ts, imp) ==
    [id |-> id, vec |-> vec, ts |-> ts, imp |-> imp, acc |-> 0,
     parents |-> <<>>, children |-> <<>>]

\* MemoryFragment.update_access: the factor is max(0.1, 1.0 - days * 0.01)
update_access(f, t) ==
    [f EXCEPT !.acc = f.acc + 1,
              !.imp = (f.imp * Max(100, Scale - ((t - f.ts) * 10) \div DaySeconds)) \div Scale]

\* _initialize_recursion_layers: coherence_threshold * 0.9 ** depth
LayerThreshold(d) ==
    IF d < 2 THEN (coherence_threshold * 9 ^ d) \div 10 ^ d
    ELSE ((coherence_threshold \div 100) * 9 ^ d) \div 10 ^ (d - 2)

\* _initialize_recursion_layers: max(100, 1000 - depth * 100)
max_fragments(d) == Max(100, 1000 - d * 100)

\* 1.0 - distance / 5.0, floored at 0, for the squared distance sq
\* (a distance of 5 or more gives 0, and its root is not taken)
SimilarityAt(sq) == IF sq >= 25 * Scale * Scale THEN 0 ELSE Max(0, Scale - ISqrt(sq) \div 5)

\* RecursionLayer._calculate_vector_similarity
vector_similarity(v1, v2) == With(SquaredDistance(v1, v2), SimilarityAt)

\* the key of min() in add_fragment and of the sort in retrieve_memory_fragments
Score(f) == f.imp * f.acc

Scores(frags) == {Score(frags[i]) : i \in 1..Len(frags)}

Least(scores) == CHOOSE m \in scores : \A x \in scores : m <= x

MinScore(frags) == With(Scores(frags), Least)

FirstOfScore(frags, m) ==
    CHOOSE i \in 1..Len(frags) : Score(frags[i]) = m /\ \A j \in 1..(i - 1) : Score(frags[j]) # m

\* the fragment inserted last
Newest(frags) == Len(frags)

\* min(self.fragments.values(), key=...): the first fragment, in insertion order, of least score
LeastImportant(frags) == With(MinScore(frags), LAMBDA m : FirstOfScore(frags, m))

IndexOfId(frags, id) ==
    IF \E i \in 1..Len(frags) : frags[i].id = id
    THEN CHOOSE i \in 1..Len(frags) : frags[i].id = id
    ELSE 0

\* a layer that removes nothing at capacity
KeepAll(frags, d) == frags

\* add_fragment, "Remove least important fragment if at capacity"
Evicted(frags, d) ==
    IF Len(frags) >= max_fragments(d)
    THEN With(LeastImportant(frags), LAMBDA i : RemoveAt(frags, i))
    ELSE frags

\* self.fragments[fragment.fragment_id] = fragment: a key already there keeps its place
PutAt(frags, pos, fragment) ==
    IF pos > 0 THEN [frags EXCEPT ![pos] = fragment] ELSE Append(frags, fragment)

Put(frags, fragment) ==
    With(IndexOfId(frags, fragment.id), LAMBDA pos : PutAt(frags, pos, fragment))

\* RecursionLayer.add_fragment on the layer of depth d
add_fragment(frags, d, fragment) == With(Evicted(frags, d), LAMBDA kept : Put(kept, fragment))

\* threshold = threshold or self.coherence_threshold: 0 is falsy
EffectiveThreshold(d, threshold) == IF threshold = 0 THEN LayerThreshold(d) ELSE threshold

SimilarPositions(frags, context_vector, th) ==
    SelectSeq(Eager([i \in 1..Len(frags) |-> i]),
              LAMBDA i : vector_similarity(context_vector, frags[i].vec) >= th)

ByImportance(frags, idxs) ==
    Eager([j \in 1..Len(idxs) |-> [k |-> frags[idxs[j]].imp, i |-> idxs[j]]])

Positions(sorted) == Eager([j \in 1..Len(sorted) |-> sorted[j].i])

\* RecursionLayer.find_similar_fragments: the positions of the similar fragments,
\* most important first
find_similar_fragments(frags, d, context_vector, threshold) ==
    With(EffectiveThreshold(d, threshold), LAMBDA th :
    With(SimilarPositions(frags, context_vector, th), LAMBDA idxs :
    With(ByImportance(frags, idxs), LAMBDA keyed :
    With(SortDesc(keyed), Positions))))

----------------------------------------------------------------------------
(* memory_recursion_manager.py: store and retrieve *)

\* An opaque content is <<name, n, vector, length of str(content)>>; the search
\* stores {"iteration": n, "vector": v}, whose text has about 100 characters.
Content(name, len) == <<name, 0, ZeroVector, len>>

IterationContent(n, v) == <<"iteration", n, v, 100>>

ContentLen(content) == content[4]

\* fragment_id: frag_<md5 of str(content)>_<int(timestamp)>
FragmentId(content, t) == <<content, t>>

\* MemoryRecursionManager._calculate_optimal_depth
\* (content_complexity is len / 1000.0, so ContentLen in thousandths)
_calculate_optimal_depth(content, context_vector) ==
    Min(Max(0, ((ContentLen(content) + magnitude(context_vector)) * max_recursion_depth)
                    \div (2 * Scale)),
        max_recursion_depth - 1)

\* append child id fid to the fragments of frags at the positions in idxs
AddChild(frags, idxs, fid) ==
    Eager([i \in 1..Len(frags) |->
            IF i \in Range(idxs)
            THEN [frags[i] EXCEPT !.children = Append(frags[i].children, fid)]
            ELSE frags[i]])

\* append the ids to the parents of the fragment fid
AddParents(frags, fid, ids) ==
    Eager([i \in 1..Len(frags) |->
            IF frags[i].id = fid
            THEN [frags[i] EXCEPT !.parents = frags[i].parents \o ids]
            ELSE frags[i]])

IdsAt(frags, idxs) == Eager([j \in 1..Len(idxs) |-> frags[idxs[j]].id])

\* similar_fragments[:3] without the fragment itself, as positions in its layer
SameLayerLinks(current, fid, depth, context_vector) ==
    With(find_similar_fragments(current, depth, context_vector, 700),
         LAMBDA similar : SelectSeq(Take(similar, 3), LAMBDA i : current[i].id # fid))

\* parent_candidates[0], if there is a parent layer and a candidate in it
ParentLayerLinks(layers, depth, context_vector) ==
    IF depth > 0
    THEN With(find_similar_fragments(layers[depth - 1], depth - 1, context_vector, 600),
              LAMBDA parent_candidates : Take(parent_candidates, 1))
    ELSE <<>>

\* the fragment's own layer after the links are made
LinkLayer(current, fid, others, parentIds) ==
    With(AddChild(current, others, fid), LAMBDA linked :
    With(IdsAt(current, others) \o parentIds, LAMBDA ids : AddParents(linked, fid, ids)))

Connect(layers, fid, depth, others, parent) ==
    IF Len(parent) > 0
    THEN [layers EXCEPT
            ![depth] = LinkLayer(layers[depth], fid, others, IdsAt(layers[depth - 1], parent)),
            ![depth - 1] = AddChild(layers[depth - 1], parent, fid)]
    ELSE [layers EXCEPT ![depth] = LinkLayer(layers[depth], fid, others, <<>>)]

\* MemoryRecursionManager._create_recursive_connections, for the fragment fid of layer depth
_create_recursive_connections(layers, fid, context_vector, depth) ==
    With(SameLayerLinks(layers[depth], fid, depth, context_vector), LAMBDA others :
    With(ParentLayerLinks(layers, depth, context_vector), LAMBDA parent :
         Connect(layers, fid, depth, others, parent)))

\* target_depth after "Determine target depth if not specified" and the min()
TargetDepth(content, context_vector, given, target_depth) ==
    Min(IF given THEN target_depth ELSE _calculate_optimal_depth(content, context_vector),
        max_recursion_depth - 1)

\* "Store in target layer" and "Create recursive connections": a depth that is no
\* layer is skipped by the first and raises KeyError in the second
StoreAt(layers, fragment, depth) ==
    IF depth \in DOMAIN layers
    THEN [layers |-> With(add_fragment(layers[depth], depth, fragment), LAMBDA added :
                     With([layers EXCEPT ![depth] = added], LAMBDA layers1 :
                          _create_recursive_connections(layers1, fragment.id, fragment.vec, depth))),
          id |-> fragment.id, depth |-> depth, raised |-> FALSE]
    ELSE [layers |-> layers, id |-> fragment.id, depth |-> depth, raised |-> TRUE]

\* MemoryRecursionManager.store_memory_fragment at time t.  given says whether
\* target_depth was supplied.  The result is the layers after the call, the id
\* returned, and whether the call raised.
store_memory_fragment(layers, content, context_vector, importance, given, target_depth, t) ==
    With(MemoryFragment(FragmentId(content, t), context_vector, t, importance), LAMBDA fragment :
    With(TargetDepth(content, context_vector, given, target_depth), LAMBDA depth :
         StoreAt(layers, fragment, depth)))

\* the candidates of one layer, as records [k: sort key, d: depth, i: position]
Candidates(frags, d, found) ==
    Eager([j \in 1..Len(found) |-> [k |-> Score(frags[found[j]]), d |-> d, i |-> found[j]]])

LayerCandidates(layers, d, query_vector, similarity_threshold) ==
    With(find_similar_fragments(layers[d], d, query_vector, similarity_threshold),
         LAMBDA found : Candidates(layers[d], d, found))

RECURSIVE AllCandidates(_, _, _, _)
AllCandidates(layers, d, query_vector, similarity_threshold) ==
    IF d >= max_recursion_depth THEN <<>>
    ELSE LayerCandidates(layers, d, query_vector, similarity_threshold)
            \o AllCandidates(layers, d + 1, query_vector, similarity_threshold)

\* the candidates left in the order the layers gave them
AsFound(candidates) == candidates

\* the order in which retrieve_memory_fragments ranks the candidates
RankCandidates(candidates) == SortDesc(candidates)

HitSet(top) == {<<top[j].d, top[j].i>> : j \in 1..Len(top)}

\* fragment.update_access() on the fragments returned
Touch(layers, hit, t) ==
    EagerMap([d \in DOMAIN layers |->
        Eager([i \in 1..Len(layers[d]) |->
            IF <<d, i>> \in hit THEN update_access(layers[d][i], t) ELSE layers[d][i]])])

Retrieved(after, top) ==
    [layers |-> after,
     found  |-> Eager([j \in 1..Len(top) |-> after[top[j].d][top[j].i]]),
     where  |-> Eager([j \in 1..Len(top) |-> top[j].d])]

RetrieveTop(layers, top, t) ==
    With(HitSet(top), LAMBDA hit :
    With(Touch(layers, hit, t), LAMBDA after : Retrieved(after, top)))

\* MemoryRecursionManager.retrieve_memory_fragments at time t: the layers after
\* the call and the fragments returned, in order, as they are after update_access
retrieve_memory_fragments(layers, query_vector, max_results, similarity_threshold, t) ==
    With(AllCandidates(layers, 0, query_vector, similarity_threshold), LAMBDA candidates :
    With(RankCandidates(candidates), LAMBDA ranked :
    With(Take(ranked, max_results), LAMBDA top : RetrieveTop(layers, top, t))))

----------------------------------------------------------------------------
(* memory_recursion_manager.py: the recursive search *)

\* fixed-point product
Mul(a, b) == (a * b) \div Scale

\* np.cos and np.sin, by their Taylor polynomials (the angles are below 1)
Cos(a) == Scale - Mul(a, a) \div 2 + Mul(Mul(a, a), Mul(a, a)) \div 24

Sin(a) == a - Mul(Mul(a, a), a) \div 6

\* sum over the memories of component c times importance, and of importance
RECURSIVE WeightedSum(_, _)
WeightedSum(memories, c) ==
    IF Len(memories) = 0 THEN 0
    ELSE Head(memories).vec[c] * Head(memories).imp + WeightedSum(Tail(memories), c)

RECURSIVE WeightSum(_)
WeightSum(memories) ==
    IF Len(memories) = 0 THEN 0 ELSE Head(memories).imp + WeightSum(Tail(memories))

\* the branch "Default: simple decay towards origin", decay = 0.95
DecayTowardsOrigin(v) ==
    <<Mul(v[1], 950), Mul(v[2], 950), Mul(v[3], 950), Mul(v[4], 950), Mul(v[5], 950)>>

\* current + (center - current) * damping, damping = 0.1
Damped(v, center) ==
    <<v[1] + Mul(100, center[1] - v[1]), v[2] + Mul(100, center[2] - v[2]),
      v[3] + Mul(100, center[3] - v[3]), v[4] + Mul(100, center[4] - v[4]),
      v[5] + Mul(100, center[5] - v[5])>>

WeightedCenter(memories, ws) ==
    <<WeightedSum(memories, 1) \div ws, WeightedSum(memories, 2) \div ws,
      WeightedSum(memories, 3) \div ws, WeightedSum(memories, 4) \div ws,
      WeightedSum(memories, 5) \div ws>>

\* the branch "Move towards weighted center with damping"
MoveTowardsCenter(v, memories) ==
    With(WeightSum(memories), LAMBDA ws :
    With(WeightedCenter(memories, ws), LAMBDA center : Damped(v, center)))

\* the branch "Spiral drift computation", angle = magnitude * 0.1
SpiralStep(v, angle) ==
    <<Mul(v[1], 900) + Mul(100, Cos(angle)), Mul(v[2], 900) + Mul(100, Sin(angle)),
      Mul(v[3], 980), v[4] + 10, Mul(v[5], 1010)>>

\* MemoryRecursionManager._compute_next_iteration
_compute_next_iteration(current_vector, memories, computation_type) ==
    IF computation_type = "field_convergence"
    THEN IF Len(memories) > 0 /\ WeightSum(memories) > 0
         THEN MoveTowardsCenter(current_vector, memories)
         ELSE DecayTowardsOrigin(current_vector)
    ELSE IF computation_type = "spiral_drift"
    THEN With(Mul(magnitude(current_vector), 100), LAMBDA angle : SpiralStep(current_vector, angle))
    ELSE current_vector

\* a magnitude m below the threshold 1e-6
BelowThreshold(m) == m < Scale /\ m * (10 ^ 6) < Scale

\* diff.magnitude() < state["convergence_threshold"]
BelowConvergenceThreshold(diff) == With(magnitude(diff), BelowThreshold)

\* recursion_id: rec_<int(timestamp)>_<computation_type>
RecursionId(t, computation_type) == <<t, computation_type>>

\* the recursion_state dictionary of start_recursive_computation; last_diff
\* records the local diff of the last pass of the loop (none before the first)
RecursionState(recursion_id, initial_vector, computation_type, max_iterations) ==
    [recursion_id |-> recursion_id, current_vector |-> initial_vector,
     computation_type |-> computation_type, iteration |-> 0,
     max_iterations |-> max_iterations, history |-> <<initial_vector>>,
     status |-> "running", last_diff |-> <<>>]

\* a loop that is left without a status being set
LoopEndRunning(st, layers) == [st |-> st, layers |-> layers, goes_on |-> FALSE]

\* a loop whose every end counts as convergence
LoopEndConverged(st, layers) ==
    [st |-> IF st.status = "running" THEN [st EXCEPT !.status = "converged"] ELSE st,
     layers |-> layers, goes_on |-> FALSE]

\* the loop is left by its condition: "if state["status"] == "running""
LoopEnd(st, layers) ==
    [st |-> IF st.status = "running" THEN [st EXCEPT !.status = "max_iterations_reached"] ELSE st,
     layers |-> layers, goes_on |-> FALSE]

\* "Update state"
Advance(st, next) ==
    [st EXCEPT !.current_vector = next, !.history = Append(st.history, next),
               !.iteration = st.iteration + 1]

\* a pass that goes to its sleep without a store
SkipStore(st, layers, t) == [st |-> st, layers |-> layers, goes_on |-> TRUE]

\* "Store intermediate result as memory", then the sleep
StoreIteration(st, layers, t) ==
    [st |-> st,
     layers |-> store_memory_fragment(layers, IterationContent(st.iteration, st.current_vector),
                                      st.current_vector, 500, FALSE, 0, t).layers,
     goes_on |-> TRUE]

\* "if diff.magnitude() < state["convergence_threshold"]" and what follows it
CheckConvergence(st, layers, next, diff, t) ==
    IF BelowConvergenceThreshold(diff)
    THEN [st |-> [st EXCEPT !.status = "converged", !.last_diff = <<diff>>],
          layers |-> layers, goes_on |-> FALSE]
    ELSE With(Advance([st EXCEPT !.last_diff = <<diff>>], next),
              LAMBDA advanced : StoreIteration(advanced, layers, t))

\* "Check for convergence": diff = next_vector - current_vector
LoopStep(st, layers, next, t) ==
    With(VecSub(next, st.current_vector), LAMBDA diff : CheckConvergence(st, layers, next, diff, t))

\* the body of the loop, r being what retrieve_memory_fragments gave
LoopBody(st, r, t) ==
    With(_compute_next_iteration(st.current_vector, r.found, st.computation_type),
         LAMBDA next : LoopStep(st, r.layers, next, t))

\* One pass of the while loop of _execute_recursive_computation over the state
\* st, with the layers as they are, at time t: the state and the layers after
\* it, and whether the loop goes on (to its sleep) or ends.
LoopPass(st, layers, t) ==
    IF st.iteration < st.max_iterations /\ st.status = "running"
    THEN With(retrieve_memory_fragments(layers, st.current_vector, 5, 300, t),
              LAMBDA r : LoopBody(st, r, t))
    ELSE LoopEnd(st, layers)

\* a test that looks at the age alone
OldOnly(f, cleanup_threshold) == f.ts < cleanup_threshold

\* the test of _background_cleanup on a fragment
Expired(f, cleanup_threshold) == f.ts < cleanup_threshold /\ f.imp < 100 /\ f.acc < 2

\* MemoryRecursionManager._background_cleanup: one sweep at time t
CleanupSweep(layers, t) ==
    EagerMap([d \in DOMAIN layers |->
        SelectSeq(layers[d], LAMBDA f : ~Expired(f, t - fragment_lifetime_days * DaySeconds))])

----------------------------------------------------------------------------
(* The memory manager as a state machine *)

\* calls (store, retrieve, advance of the clock) in one run
MaxCalls == 3

\* searches started in one run
MaxSearches == 1

\* the largest max_iterations asked for
MaxIterations == 2

\* how far below its capacity the deepest layer is in the loaded initial state
LoadGap == 1

\* the vector the calls of the model use: its magnitude sends a default store,
\* and the fragments of a search that starts from it, to the deepest layer
BaseX == ScrollVector(2000, 0, 0, 0, 0)

\* the vector of the fragments of the loaded initial state, far from BaseX
FarX == ScrollVector(20000, 0, 0, 0, 0)

\* the store calls of the model: content, context vector, importance, whether a
\* target depth is given, and the target depth
StoreCalls ==
    { <<Content("a", 1), BaseX, 1000, FALSE, 0>>,
      <<Content("b", 1), BaseX, 50, FALSE, 0>>,
      <<Content("c", 1), BaseX, 1000, TRUE, max_recursion_depth - 2>> }

\* the retrieve calls of the model: query vector, max_results, similarity threshold
RetrieveCalls == { <<BaseX, 1, 500>>, <<BaseX, 2, 500>> }

\* the searches of the model: policy and max_iterations
SearchCalls ==
    { <<"field_convergence", MaxIterations>>, <<"spiral_drift", MaxIterations>>,
      <<"identity", MaxIterations>>, <<"field_convergence", 0>> }

EmptyLayers == EagerMap([d \in Depths |-> <<>>])

\* The deepest layer after n stores of one payload at FarX, one per second from
\* second 1 (_calculate_optimal_depth sends them all to the deepest layer): the
\* first three fragments are the parents of every later one.
LoadId(i) == FragmentId(Content("load", 4), i)

LoadedFragment(i, n) ==
    [id |-> LoadId(i), vec |-> FarX, ts |-> i, imp |-> 1000, acc |-> 0,
     parents  |-> Eager([j \in 1..Min(i - 1, 3) |-> LoadId(j)]),
     children |-> IF i <= 3 THEN Eager([j \in 1..(n - i) |-> LoadId(i + j)]) ELSE <<>>]

\* the same state, store by store
RECURSIVE StoredLoad(_)
StoredLoad(n) ==
    IF n = 0 THEN EmptyLayers
    ELSE With(StoredLoad(n - 1), LAMBDA layers :
              store_memory_fragment(layers, Content("load", 4), FarX, 1000, FALSE, 0, n).layers)

LoadedLayers(n) ==
    EagerMap([d \in Depths |-> IF d = max_recursion_depth - 1
                               THEN Eager([i \in 1..n |-> LoadedFragment(i, n)])
                               ELSE <<>>])

StartTime == max_fragments(max_recursion_depth - 1)

NoId == FragmentId(Content("", 0), 0)

\* what an operation returned, and when; after_store is the id returned by the
\* store call that immediately preceded it, if there is one, in the same second
\* and with the same vector
Returned(op, id, vec, raised, found) ==
    [op |-> op, id |-> id, vec |-> vec, raised |-> raised, found |-> found, at |-> now,
     after_store |-> IF ret.op = "store" /\ ~ret.raised /\ ret.vec = vec /\ ret.at = now
                     THEN ret.id ELSE NoId]

\* MemoryRecursionManager.__init__, with the layers given
InitWith(layers) ==
    /\ now = StartTime
    /\ recursion_layers = layers
    /\ active_recursions = [x \in {} |-> 0]
    /\ rec_states = <<>>
    /\ rec_tasks = <<>>
    /\ cleanup_due = StartTime
    /\ calls = 0
    /\ ret = [op |-> "init", id |-> NoId, vec |-> ZeroVector, raised |-> FALSE, found |-> <<>>,
              at |-> StartTime, after_store |-> NoId]

InitMem == InitWith(EmptyLayers)

\* a manager whose deepest layer is LoadGap below its capacity
InitLoaded == InitWith(LoadedLayers(StartTime - LoadGap))

StoreReturns(w, context_vector) ==
    /\ recursion_layers' = w.layers
    /\ ret' = Returned("store", w.id, context_vector, w.raised, <<>>)

\* a caller stores a fragment
Store(content, context_vector, importance, given, target_depth) ==
    /\ calls < MaxCalls
    /\ \E w \in {store_memory_fragment(recursion_layers, content, context_vector,
                                        importance, given, target_depth, now)} :
            StoreReturns(w, context_vector)
    /\ calls' = calls + 1
    /\ UNCHANGED <<now, active_recursions, rec_states, rec_tasks, cleanup_due>>
    /\ UNCHANGED <<meshVars, agentVars, fieldVars>>

RetrieveReturns(r, query_vector) ==
    /\ recursion_layers' = r.layers
    /\ ret' = Returned("retrieve", NoId, query_vector, FALSE, r.found)

\* a caller retrieves fragments
Retrieve(query_vector, max_results, similarity_threshold) ==
    /\ calls < MaxCalls
    /\ \E r \in {retrieve_memory_fragments(recursion_layers, query_vector, max_results,
                                            similarity_threshold, now)} :
            RetrieveReturns(r, query_vector)
    /\ calls' = calls + 1
    /\ UNCHANGED <<now, active_recursions, rec_states, rec_tasks, cleanup_due>>
    /\ UNCHANGED <<meshVars, agentVars, fieldVars>>

\* the task that asyncio.create_task makes for the search recursion_id;
\* empty_start records whether the store was empty when it was made
CreatedTask(recursion_id) ==
    [rid |-> recursion_id, pc |-> "created", st |-> 0,
     empty_start |-> recursion_layers = EmptyLayers]

Started(recursion_id, initial_vector, computation_type, max_iterations) ==
    /\ rec_states' = Append(rec_states,
            RecursionState(recursion_id, initial_vector, computation_type, max_iterations))
    /\ active_recursions' = (recursion_id :> (Len(rec_states) + 1)) @@ active_recursions
    /\ rec_tasks' = Append(rec_tasks, CreatedTask(recursion_id))
    /\ ret' = Returned("start", NoId, initial_vector, FALSE, <<>>)

\* MemoryRecursionManager.start_recursive_computation
start_recursive_computation(initial_vector, computation_type, max_iterations) ==
    /\ Started(RecursionId(now, computation_type), initial_vector, computation_type,
               max_iterations)
    /\ UNCHANGED <<now, recursion_layers, cleanup_due, calls>>
    /\ UNCHANGED <<meshVars, agentVars, fieldVars>>

\* state = self.active_recursions[recursion_id], looked up when the task first runs
TaskState(task) == IF task.pc = "created" THEN active_recursions[task.rid] ELSE task.st

\* task i, on state h, makes the pass r of its loop
RunTask(i, h, r) ==
    /\ rec_states' = [rec_states EXCEPT ![h] = r.st]
    /\ recursion_layers' = r.layers
    /\ rec_tasks' = [rec_tasks EXCEPT ![i] =
            [rec_tasks[i] EXCEPT !.pc = IF r.goes_on THEN "sleeping" ELSE "done", !.st = h]]

\* MemoryRecursionManager._execute_recursive_computation: task i runs from its
\* start, or from its sleep, to its next sleep or to its end
_execute_recursive_computation(i) ==
    /\ rec_tasks[i].pc # "done"
    /\ \E h \in {TaskState(rec_tasks[i])} :
       \E r \in {LoopPass(rec_states[h], recursion_layers, now)} : RunTask(i, h, r)
    /\ UNCHANGED <<now, active_recursions, cleanup_due, calls, ret>>
    /\ UNCHANGED <<meshVars, agentVars, fieldVars>>

\* MemoryRecursionManager._background_cleanup: the sweep, then the sleep
_background_cleanup ==
    /\ now >= cleanup_due
    /\ recursion_layers' = CleanupSweep(recursion_layers, now)
    /\ cleanup_due' = now + auto_cleanup_interval
    /\ UNCHANGED <<now, active_recursions, rec_states, rec_tasks, calls, ret>>
    /\ UNCHANGED <<meshVars, agentVars, fieldVars>>

\* the clock advances
TickMem(dt) ==
    /\ calls < MaxCalls
    /\ now' = now + dt
    /\ calls' = calls + 1
    /\ UNCHANGED <<recursion_layers, active_recursions, rec_states, rec_tasks, cleanup_due, ret>>
    /\ UNCHANGED <<meshVars, agentVars, fieldVars>>

\* longer than the lifetime of a fragment
Month == (fragment_lifetime_days + 1) * DaySeconds

NextMem ==
    \/ \E c \in StoreCalls : Store(c[1], c[2], c[3], c[4], c[5])
    \/ \E c \in RetrieveCalls : Retrieve(c[1], c[2], c[3])
    \/ \E c \in SearchCalls :
            Len(rec_tasks) < MaxSearches /\ start_recursive_computation(BaseX, c[1], c[2])
    \/ \E i \in 1..Len(rec_tasks) : _execute_recursive_computation(i)
    \/ _background_cleanup
    \/ TickMem(Month)

\* a vector at distance 1.5 from BaseX: similarity 0.7
NearX == ScrollVector(3500, 0, 0, 0, 0)

\* store calls with target depths below, inside and above the layers, and
\* with fragments of different importance next to each other
DepthCalls ==
    { <<Content("p", 1), BaseX, 50, TRUE, max_recursion_depth - 2>>,
      <<Content("q", 1), NearX, 1000, TRUE, max_recursion_depth - 2>>,
      <<Content("a", 1), BaseX, 1000, FALSE, 0>>,
      <<Content("n", 1), BaseX, 1000, TRUE, 0 - 1>>,
      <<Content("o", 1), BaseX, 1000, TRUE, max_recursion_depth>> }

\* searches started next to each other in one run
MaxConcurrent == 2

\* the policies of the searches started next to each other
TwinPolicies == {"spiral_drift", "field_convergence"}

\* the memory manager with callers that start searches, also within one second
NextSearches ==
    \/ \E v \in {BaseX, NearX} : \E p \in TwinPolicies :
            Len(rec_tasks) < MaxConcurrent /\ start_recursive_computation(v, p, MaxIterations)
    \/ \E i \in 1..Len(rec_tasks) : _execute_recursive_computation(i)
    \/ TickMem(1)

\* the memory manager with callers that store at chosen depths
NextStore ==
    \/ \E c \in DepthCalls : Store(c[1], c[2], c[3], c[4], c[5])
    \/ \E c \in RetrieveCalls : Retrieve(c[1], c[2], c[3])
    \/ _background_cleanup
    \/ TickMem(Month)

\* the stores that fill the manager before the retrievals: content, context
\* vector, importance, target depth, one per second from second 1
StockCalls ==
    << <<Content("p", 1), BaseX, 50, max_recursion_depth - 2>>,
       <<Content("a", 1), BaseX, 1000, max_recursion_depth - 1>>,
       <<Content("f", 1), FarX, 1000, max_recursion_depth - 1>> >>

RECURSIVE Stocked(_)
Stocked(n) ==
    IF n = 0 THEN EmptyLayers
    ELSE With(Stocked(n - 1), LAMBDA layers :
              store_memory_fragment(layers, StockCalls[n][1], StockCalls[n][2], StockCalls[n][3],
                                    TRUE, StockCalls[n][4], n).layers)

\* a manager after the stores of StockCalls
InitStocked == InitWith(Stocked(Len(StockCalls)))

\* the retrieve calls on the stocked manager: query vector, max_results,
\* similarity threshold
RecallCalls == { <<BaseX, 1, 500>>, <<BaseX, 2, 500>>, <<NearX, 2, 800>>, <<FarX, 1, 900>> }

NextRecall ==
    \/ \E c \in RecallCalls : Retrieve(c[1], c[2], c[3])
    \/ _background_cleanup
    \/ TickMem(Month)
----------------------------------------------------------------------------
(* scrollmath_engine.py: CodexDriftField and ScrollMathEngine *)

\* CodexDriftField (temporal_decay and created_at are never read)
CodexDriftField(vectors, drift_coefficient, field_strength) ==
    [vectors |-> vectors, drift_coefficient |-> drift_coefficient,
     field_strength |-> field_strength]

RECURSIVE SumComponent(_, _)
SumComponent(vectors, c) ==
    IF Len(vectors) = 0 THEN 0 ELSE Head(vectors)[c] + SumComponent(Tail(vectors), c)

\* sum(...) / len(...), component by component
MeanVector(vectors) ==
    <<SumComponent(vectors, 1) \div Len(vectors), SumComponent(vectors, 2) \div Len(vectors),
      SumComponent(vectors, 3) \div Len(vectors), SumComponent(vectors, 4) \div Len(vectors),
      SumComponent(vectors, 5) \div Len(vectors)>>

\* CodexDriftField.compute_field_gradient
compute_field_gradient(field) ==
    IF Len(field.vectors) = 0 THEN ZeroVector ELSE MeanVector(field.vectors)

\* ScrollMathEngine.create_drift_field
create_drift_field(vectors, drift_coeff, field_strength) ==
    CodexDriftField(vectors, drift_coeff, field_strength)

\* "Apply 5D transformation matrix"
Shifted(field, target_vector, gradient) ==
    <<target_vector[1] + Mul(gradient[1], field.drift_coefficient),
      target_vector[2] + Mul(gradient[2], field.drift_coefficient),
      target_vector[3] + Mul(gradient[3], field.drift_coefficient),
      target_vector[4] + Mul(gradient[4], field.field_strength),
      target_vector[5] + Mul(gradient[5], field.field_strength)>>

\* x**2 in ScrollVector.magnitude raises OverflowError when x is beyond the
\* range of squares; the model's numbers have a narrower range than floats
SquareLimit == 46 * Scale

\* ScrollVector.magnitude raises on v
Overflows(v) == \E c \in 1..5 : Abs(v[c]) > SquareLimit

\* compute_5d_transform raises in transformed.normalize()
TransformRaises(field, target_vector) ==
    With(compute_field_gradient(field),
         LAMBDA gradient : Overflows(Shifted(field, target_vector, gradient)))

\* ScrollMathEngine.compute_5d_transform
compute_5d_transform(field, target_vector) ==
    With(compute_field_gradient(field), LAMBDA gradient :
    With(Shifted(field, target_vector, gradient), normalize))

Dot(a, b) == Mul(a[1], b[1]) + Mul(a[2], b[2]) + Mul(a[3], b[3]) + Mul(a[4], b[4]) + Mul(a[5], b[5])

\* ScrollMathEngine.calculate_mesh_resonance
calculate_mesh_resonance(field1, field2) ==
    With(compute_field_gradient(field1), LAMBDA grad1 :
    With(compute_field_gradient(field2), LAMBDA grad2 : Abs(Dot(grad1, grad2))))

----------------------------------------------------------------------------
(* mesh_orchestrator.py: nodes and tasks *)

\* MeshOrchestrator.__init__: the configuration defaults
max_nodes == 100

heartbeat_interval == 10

\* MeshNode.is_healthy: the default of timeout_seconds
timeout_seconds == 30

\* MeshNode, made at time t
MeshNode(node_id, position, state, compute_capacity, field_affinity, t) ==
    [node_id |-> node_id, position |-> position, state |-> state,
     compute_capacity |-> compute_capacity, field_affinity |-> field_affinity,
     last_heartbeat |-> t, assigned_tasks |-> <<>>]

\* MeshNode.is_healthy at time t
is_healthy(node, t) == t - node.last_heartbeat < timeout_seconds

\* the nodes of _create_initial_topology have the ids core-0 .. core-4
core_positions ==
    << ScrollVector(0, 0, 0, 0, 0), ScrollVector(1000, 0, 0, 0, 500),
       ScrollVector(0, 1000, 0, 500, 0), ScrollVector(0, 0, 1000, 0, 800),
       ScrollVector(0, 0, 0, 1000, 300) >>

\* MeshOrchestrator._create_initial_topology at time t
_create_initial_topology(t) ==
    Eager([i \in 1..Len(core_positions) |->
            MeshNode(<<"core", i - 1>>, core_positions[i], "active", 1000, 800, t)])

\* 1.0 / (1.0 + distance)
Resonance(distance) == (Scale * Scale) \div (Scale + distance)

\* MeshOrchestrator._calculate_position_resonance
_calculate_position_resonance(pos1, pos2) == With(magnitude(VecSub(pos1, pos2)), Resonance)

\* _calculate_position_resonance raises in diff.magnitude()
ResonanceRaises(pos1, pos2) == Overflows(VecSub(pos1, pos2))

\* node.field_affinity * position_affinity * node.compute_capacity
NodeScore(node, field_gradient) ==
    Mul(Mul(node.field_affinity, _calculate_position_resonance(node.position, field_gradient)),
        node.compute_capacity)

\* available_nodes, as positions in the registry
AvailableNodes(ns, t) ==
    SelectSeq(Eager([i \in 1..Len(ns) |-> i]),
              LAMBDA i : ns[i].state = "active" /\ is_healthy(ns[i], t))

\* node_scores, as records [k: score, i: position in the registry]
ScoreNodes(ns, available, field_gradient) ==
    Eager([j \in 1..Len(available) |->
            [k |-> NodeScore(ns[available[j]], field_gradient), i |-> available[j]]])

\* the scores left in the order of the registry
Unranked(node_scores) == node_scores

\* node_scores.sort(key=lambda x: x[1], reverse=True)
RankNodes(node_scores) == SortDesc(node_scores)

\* [node_id for node_id, _ in node_scores[:3]]
TopThree(ns, ranked) ==
    With(Take(ranked, 3), LAMBDA top : Eager([j \in 1..Len(top) |-> ns[top[j].i].node_id]))

\* MeshOrchestrator._select_task_nodes at time t
_select_task_nodes(ns, input_field, t) ==
    With(compute_field_gradient(input_field), LAMBDA field_gradient :
    With(AvailableNodes(ns, t), LAMBDA available :
    With(ScoreNodes(ns, available, field_gradient), LAMBDA node_scores :
    With(RankNodes(node_scores), LAMBDA ranked : TopThree(ns, ranked)))))

\* _select_task_nodes raises while it scores an available node
SelectRaises(ns, input_field, t) ==
    With(compute_field_gradient(input_field), LAMBDA field_gradient :
        \E i \in Range(AvailableNodes(ns, t)) : ResonanceRaises(ns[i].position, field_gradient))

\* task.result before the task has one (None)
NoResult == [kind |-> "none"]

\* MeshTask
MeshTask(task_id, task_type, input_field, target_nodes) ==
    [task_id |-> task_id, task_type |-> task_type, input_field |-> input_field,
     target_nodes |-> target_nodes, status |-> "pending", result |-> NoResult]

\* _compute_subtask raises after its sleep
SubtaskRaises(task, node) ==
    /\ task.task_type = "field_transform"
    /\ TransformRaises(task.input_field, node.position)

\* MeshOrchestrator._compute_subtask, after its sleep
_compute_subtask(task, node) ==
    IF task.task_type = "field_transform"
    THEN [node_id |-> node.node_id, kind |-> "transformed_vector",
          value |-> compute_5d_transform(task.input_field, node.position)]
    ELSE IF task.task_type = "resonance_analysis"
    THEN [node_id |-> node.node_id, kind |-> "resonance_value",
          value |-> calculate_mesh_resonance(task.input_field,
                        create_drift_field(<<node.position>>, 500, 1000))]
    ELSE [node_id |-> node.node_id, kind |-> "status", value |-> "unknown_task_type"]

Values(results) == Eager([j \in 1..Len(results) |-> results[j].value])

NodeIds(results) == Eager([j \in 1..Len(results) |-> results[j].node_id])

\* the components summed and left undivided
SumVector(vectors) ==
    <<SumComponent(vectors, 1), SumComponent(vectors, 2), SumComponent(vectors, 3),
      SumComponent(vectors, 4), SumComponent(vectors, 5)>>

\* "Average the transformed vectors"
AverageTransform(vectors) == MeanVector(vectors)

\* MeshOrchestrator._aggregate_subtask_results
_aggregate_subtask_results(task_type, results) ==
    IF task_type = "field_transform"
    THEN IF Len(results) = 0 THEN NoResult
         ELSE [kind |-> "aggregated_transform",
               aggregated_transform |-> With(Values(results), AverageTransform),
               contributing_nodes |-> NodeIds(results)]
    ELSE IF task_type = "resonance_analysis"
    THEN [kind |-> "resonance",
          total_resonance |-> SumSeq(Values(results)),
          average_resonance |-> IF Len(results) > 0
                                THEN SumSeq(Values(results)) \div Len(results) ELSE 0,
          contributing_nodes |-> NodeIds(results)]
    ELSE [kind |-> "raw_results", raw_results |-> results]

\* the position in the registry of the node node_id
NodeAt(ns, node_id) == CHOOSE i \in 1..Len(ns) : ns[i].node_id = node_id

FirstIndex(s, x) == CHOOSE i \in 1..Len(s) : s[i] = x /\ \A j \in 1..(i - 1) : s[j] # x

\* list.remove(x)
Remove(s, x) == With(FirstIndex(s, x), LAMBDA i : RemoveAt(s, i))

\* node.state = COMPUTING; node.assigned_tasks.append(task_id)
Assign(ns, i, task_id) ==
    [ns EXCEPT ![i] = [ns[i] EXCEPT !.state = "computing",
                                    !.assigned_tasks = Append(ns[i].assigned_tasks, task_id)]]

\* "Reset node state": node.state = ACTIVE; node.assigned_tasks.remove(task_id)
Release(ns, i, task_id) ==
    [ns EXCEPT ![i] = [ns[i] EXCEPT !.state = "active",
                                    !.assigned_tasks = Remove(ns[i].assigned_tasks, task_id)]]

\* a sweep that flags every node
FlagAll(ns, t) == Eager([i \in 1..Len(ns) |-> [ns[i] EXCEPT !.state = "error"]])

\* the sweep of _heartbeat_monitor at time t
HeartbeatSweep(ns, t) ==
    Eager([i \in 1..Len(ns) |->
            IF is_healthy(ns[i], t) THEN ns[i] ELSE [ns[i] EXCEPT !.state = "error"]])

\* "Set all nodes to dormant"
AllDormant(ns) == Eager([i \in 1..Len(ns) |-> [ns[i] EXCEPT !.state = "dormant"]])

----------------------------------------------------------------------------
(* The mesh orchestrator as a state machine *)

\* tasks submitted in one run
MaxTasks == 2

\* nodes nodes_added in one run
MaxAdded == 1

\* heartbeat intervals that pass in one run
MaxIntervals == 3

\* the field of the tasks of the model: its gradient is (0.5, 0.5, 0, 0, 0)
FieldA ==
    create_drift_field(<<ScrollVector(1000, 0, 0, 0, 0), ScrollVector(0, 1000, 0, 0, 0)>>,
                       1000, 1000)

\* the task types of the model
TaskTypes == {"field_transform", "resonance_analysis"}

\* the nodes a caller adds: position, compute_capacity, field_affinity
NodeCalls == { <<ScrollVector(500, 500, 0, 0, 0), 2000, 1000>> }

\* MeshOrchestrator.__init__
InitMesh ==
    /\ mesh_clock = 0
    /\ orchestration_active = FALSE
    /\ nodes = <<>>
    /\ tasks = <<>>
    /\ mesh_runs = <<>>
    /\ monitor = [pc |-> "none", due |-> 0]
    /\ nodes_added = 0
    /\ node_limit = max_nodes

\* the values of max_nodes a configuration gives: below, at and above the
\* number of core nodes
NodeLimits == {Len(core_positions) - 2, Len(core_positions), Len(core_positions) + 1}

\* MeshOrchestrator.__init__ with max_nodes in the configuration
InitMeshConfigured ==
    /\ mesh_clock = 0
    /\ orchestration_active = FALSE
    /\ nodes = <<>>
    /\ tasks = <<>>
    /\ mesh_runs = <<>>
    /\ monitor = [pc |-> "none", due |-> 0]
    /\ nodes_added = 0
    /\ node_limit \in NodeLimits

\* MeshOrchestrator.initialize_mesh
initialize_mesh ==
    /\ monitor.pc = "none"
    /\ nodes' = _create_initial_topology(mesh_clock)
    /\ orchestration_active' = TRUE
    /\ monitor' = [pc |-> "sleeping", due |-> mesh_clock]
    /\ UNCHANGED <<mesh_clock, tasks, mesh_runs, nodes_added>>
    /\ UNCHANGED <<memVars, agentVars, fieldVars, node_limit>>

\* _integrate_node raises while it compares the new node with a registered one
IntegrateRaises(ns, position) == \E i \in 1..Len(ns) : ResonanceRaises(position, ns[i].position)

\* MeshOrchestrator.add_mesh_node with _integrate_node: at the limit it raises;
\* a node whose integration raises stays registered and initializing
add_mesh_node(position, compute_capacity, field_affinity) ==
    /\ monitor.pc # "none"
    /\ nodes_added < MaxAdded
    /\ nodes_added' = nodes_added + 1
    /\ nodes' = IF Len(nodes) >= node_limit THEN nodes
                ELSE Append(nodes, MeshNode(<<"node", nodes_added>>, position,
                                            IF IntegrateRaises(nodes, position)
                                            THEN "initializing" ELSE "active",
                                            compute_capacity, field_affinity, mesh_clock))
    /\ UNCHANGED <<mesh_clock, orchestration_active, tasks, mesh_runs, monitor>>
    /\ UNCHANGED <<memVars, agentVars, fieldVars, node_limit>>

\* MeshOrchestrator.submit_mesh_task: when the selection raises no task is made
submit_mesh_task(task_type, input_field) ==
    /\ monitor.pc # "none"
    /\ Len(tasks) < MaxTasks
    /\ ~SelectRaises(nodes, input_field, mesh_clock)
    /\ \E target_nodes \in {_select_task_nodes(nodes, input_field, mesh_clock)} :
          tasks' = Append(tasks, MeshTask(<<"task", Len(tasks)>>, task_type, input_field,
                                          target_nodes))
    /\ mesh_runs' = Append(mesh_runs, [pc |-> "created", at |-> 0, subtask_results |-> <<>>])
    /\ UNCHANGED <<mesh_clock, orchestration_active, nodes, monitor, nodes_added>>
    /\ UNCHANGED <<memVars, agentVars, fieldVars, node_limit>>

\* the loop of _execute_mesh_task goes on to target number k: it assigns the
\* node and sleeps in _compute_subtask, or, past the last target, aggregates
Proceed(i, ns, k, results) ==
    IF k <= Len(tasks[i].target_nodes)
    THEN /\ nodes' = Assign(ns, NodeAt(ns, tasks[i].target_nodes[k]), tasks[i].task_id)
         /\ tasks' = [tasks EXCEPT ![i].status = "executing"]
         /\ mesh_runs' = [mesh_runs EXCEPT ![i] =
                [pc |-> "computing", at |-> k, subtask_results |-> results]]
    ELSE /\ nodes' = ns
         /\ tasks' = [tasks EXCEPT ![i].status = "completed",
                                   ![i].result =
                                        _aggregate_subtask_results(tasks[i].task_type, results)]
         /\ mesh_runs' = [mesh_runs EXCEPT ![i] =
                [pc |-> "done", at |-> k, subtask_results |-> results]]

\* task.result = {"error": str(e)}
ErrorResult == [kind |-> "error", error |-> "OverflowError"]

\* the exception escapes _execute_mesh_task: the task is left as it is
Escapes(i) ==
    /\ nodes' = nodes
    /\ tasks' = tasks
    /\ mesh_runs' = [mesh_runs EXCEPT ![i].pc = "done"]

\* the except branch of _execute_mesh_task: the task fails as a whole, the
\* node of the subtask that raised keeps its state and its assignment
Fail(i) ==
    /\ nodes' = nodes
    /\ tasks' = [tasks EXCEPT ![i].status = "failed", ![i].result = ErrorResult]
    /\ mesh_runs' = [mesh_runs EXCEPT ![i].pc = "done"]

\* _compute_subtask ends for target number k: it raises, or its result is
\* kept and the node is reset
Resume(i, k, n) ==
    IF SubtaskRaises(tasks[i], nodes[n]) THEN Fail(i)
    ELSE \E result \in {_compute_subtask(tasks[i], nodes[n])} :
         \E ns \in {Release(nodes, n, tasks[i].task_id)} :
            Proceed(i, ns, k + 1, Append(mesh_runs[i].subtask_results, result))

\* MeshOrchestrator._execute_mesh_task for task i: from its start, or from the
\* sleep of a subtask, to the next sleep or to its end
_execute_mesh_task(i) ==
    /\ mesh_runs[i].pc # "done"
    /\ IF mesh_runs[i].pc = "created"
       THEN Proceed(i, nodes, 1, <<>>)
       ELSE Resume(i, mesh_runs[i].at, NodeAt(nodes, tasks[i].target_nodes[mesh_runs[i].at]))
    /\ UNCHANGED <<mesh_clock, orchestration_active, monitor, nodes_added>>
    /\ UNCHANGED <<memVars, agentVars, fieldVars, node_limit>>

\* MeshOrchestrator._heartbeat_monitor: one pass of its loop, or its end
_heartbeat_monitor ==
    /\ monitor.pc = "sleeping"
    /\ mesh_clock >= monitor.due
    /\ IF orchestration_active
       THEN /\ nodes' = HeartbeatSweep(nodes, mesh_clock)
            /\ monitor' = [pc |-> "sleeping", due |-> mesh_clock + heartbeat_interval]
       ELSE /\ nodes' = nodes
            /\ monitor' = [monitor EXCEPT !.pc = "ended"]
    /\ UNCHANGED <<mesh_clock, orchestration_active, tasks, mesh_runs, nodes_added>>
    /\ UNCHANGED <<memVars, agentVars, fieldVars, node_limit>>

\* MeshOrchestrator.shutdown_mesh
shutdown_mesh ==
    /\ orchestration_active
    /\ orchestration_active' = FALSE
    /\ nodes' = AllDormant(nodes)
    /\ UNCHANGED <<mesh_clock, tasks, mesh_runs, monitor, nodes_added>>
    /\ UNCHANGED <<memVars, agentVars, fieldVars, node_limit>>

\* a heartbeat interval passes; the monitor's sleep has ended by then
TickMesh ==
    /\ mesh_clock < MaxIntervals * heartbeat_interval
    /\ monitor.pc # "none"
    /\ monitor.pc = "sleeping" => mesh_clock < monitor.due
    /\ mesh_clock' = mesh_clock + heartbeat_interval
    /\ UNCHANGED <<orchestration_active, nodes, tasks, mesh_runs, monitor, nodes_added>>
    /\ UNCHANGED <<memVars, agentVars, fieldVars, node_limit>>

\* a field whose gradient (1, 0, 0, 0, 0), drifted by 45, stays within the
\* range of squares on the core nodes only
FieldB == create_drift_field(<<ScrollVector(1000, 0, 0, 0, 0)>>, 45 * Scale, 1000)

\* a node whose transform under FieldB is out of range, scored between core-1 and core-0
FarNodeCalls == { <<ScrollVector(2000, 0, 0, 0, 0), 1000, 900>> }

NextMesh ==
    \/ initialize_mesh
    \/ \E c \in NodeCalls : add_mesh_node(c[1], c[2], c[3])
    \/ \E task_type \in TaskTypes : submit_mesh_task(task_type, FieldA)
    \/ \E i \in 1..Len(mesh_runs) : _execute_mesh_task(i)
    \/ _heartbeat_monitor
    \/ shutdown_mesh
    \/ TickMesh

\* the mesh with a subtask that raises
NextMeshFault ==
    \/ initialize_mesh
    \/ \E c \in FarNodeCalls : add_mesh_node(c[1], c[2], c[3])
    \/ submit_mesh_task("field_transform", FieldB)
    \/ \E i \in 1..Len(mesh_runs) : _execute_mesh_task(i)
    \/ _heartbeat_monitor
    \/ shutdown_mesh
    \/ TickMesh

\* the mesh of the core nodes, shut down with or without tasks in flight
NextShutdown ==
    \/ initialize_mesh
    \/ submit_mesh_task("field_transform", FieldA)
    \/ \E i \in 1..Len(mesh_runs) : _execute_mesh_task(i)
    \/ _heartbeat_monitor
    \/ shutdown_mesh
    \/ TickMesh
----------------------------------------------------------------------------
(* agent_activator.py: Agent *)

\* AgentProfile: the defaults of activation_threshold and memory_capacity
default_activation_threshold == 500

memory_capacity == 1000

\* AgentActivator._agent_lifecycle_manager: "1 hour inactive"
idle_limit == 3600

\* AgentProfile (learning_rate, communication_range, priority_level and
\* creation_time are never read)
AgentProfile(agent_id, agent_type, capabilities, position, activation_threshold) ==
    [agent_id |-> agent_id, agent_type |-> agent_type, capabilities |-> capabilities,
     position |-> position, activation_threshold |-> activation_threshold,
     memory_capacity |-> memory_capacity]

\* AgentMessage
AgentMessage(message_id, sender_id, receiver_id, message_type, content, priority) ==
    [message_id |-> message_id, sender_id |-> sender_id, receiver_id |-> receiver_id,
     message_type |-> message_type, content |-> content, priority |-> priority]

\* receiver_id of a broadcast (None)
Broadcast == <<"none">>

\* Agent.__init__ at time t.  pc is the position of the agent's main loop:
\* "none" before the task exists, "sleeping" in the sleep that ends a cycle
\* (or not yet started), "computing" in the sleep of
\* _perform_scrollmath_computation, "stopped" after the loop has ended.
Agent(profile, t) ==
    [profile |-> profile, state |-> "dormant", local_memory |-> <<>>,
     message_queue |-> <<>>, task_history |-> <<>>,
     performance_metrics |-> [tasks_completed |-> 0, messages_processed |-> 0,
                              learning_iterations |-> 0, errors_encountered |-> 0],
     last_activity |-> t, activation_energy |-> 0, pattern_buffer |-> 0,
     pc |-> "none", handling |-> <<>>, last_result |-> "none", processed_items |-> 0]

\* Agent.activate with _initialize_agent_systems at time t: nothing in it raises
activate(agent, t) ==
    [agent EXCEPT !.state = "active", !.last_activity = t, !.pc = "sleeping"]

\* Agent.terminate
terminate(agent) == [agent EXCEPT !.state = "terminated"]

\* a queue that takes a message twice
AddTwice(agent, message) ==
    [agent EXCEPT !.message_queue = Append(Append(agent.message_queue, message), message)]

\* Agent.add_message
add_message(agent, message) ==
    [agent EXCEPT !.message_queue = Append(agent.message_queue, message)]

\* a memory that takes every item
StoreAll(local_memory, items, capacity) == local_memory \o items

\* Agent._perform_memory_processing: items are kept while there is room
RECURSIVE StoreItems(_, _, _)
StoreItems(local_memory, items, capacity) ==
    IF Len(items) = 0 THEN local_memory
    ELSE IF Len(local_memory) < capacity
    THEN StoreItems(Append(local_memory, Head(items)), Tail(items), capacity)
    ELSE StoreItems(local_memory, Tail(items), capacity)

\* Agent._perform_memory_processing: processed_items counts the items kept
_perform_memory_processing(agent, task_data) ==
    With(StoreItems(agent.local_memory, task_data.memory_data, agent.profile.memory_capacity),
         LAMBDA kept : [agent EXCEPT !.local_memory = kept, !.last_result = "completed",
                                     !.processed_items = Len(kept) - Len(agent.local_memory)])

\* Agent._perform_pattern_analysis
_perform_pattern_analysis(agent, task_data) == [agent EXCEPT !.last_result = "completed"]

\* Agent._perform_scrollmath_computation: it sleeps before it computes
Suspended(agent, message) == [agent EXCEPT !.pc = "computing", !.handling = <<message>>]

\* the end of _handle_task_assignment and of _handle_message, and the count
\* of _process_message_queue
Handled(agent) ==
    [agent EXCEPT !.performance_metrics.tasks_completed = @ + 1,
                  !.performance_metrics.messages_processed = @ + 1,
                  !.state = "active", !.pc = "running", !.handling = <<>>]

\* a task run by its type alone, whatever the capabilities
Ungated(agent, message) ==
    IF message.content.type = "scrollmath_compute" THEN Suspended(agent, message)
    ELSE IF message.content.type = "pattern_analyze"
    THEN Handled(_perform_pattern_analysis(agent, message.content))
    ELSE IF message.content.type = "memory_process"
    THEN Handled(_perform_memory_processing(agent, message.content))
    ELSE Handled([agent EXCEPT !.last_result = "unsupported_task"])

\* Agent._execute_assigned_task
_execute_assigned_task(agent, message) ==
    IF message.content.type = "scrollmath_compute"
       /\ "scrollmath_computation" \in agent.profile.capabilities
    THEN Suspended(agent, message)
    ELSE IF message.content.type = "pattern_analyze"
            /\ "pattern_recognition" \in agent.profile.capabilities
    THEN Handled(_perform_pattern_analysis(agent, message.content))
    ELSE IF message.content.type = "memory_process"
            /\ "memory_processing" \in agent.profile.capabilities
    THEN Handled(_perform_memory_processing(agent, message.content))
    ELSE Handled([agent EXCEPT !.last_result = "unsupported_task"])

\* Agent._handle_task_assignment
_handle_task_assignment(agent, message) ==
    _execute_assigned_task(
        [agent EXCEPT !.state = "computing",
                      !.task_history = Append(agent.task_history, message.content.task_id)],
        message)

\* the message types whose handler Agent does not define: the call raises
Unhandled == {"coordination_request", "learning_data", "status_query"}

\* Agent._handle_message
_handle_message(agent, message) ==
    IF message.message_type = "task_assignment"
    THEN _handle_task_assignment([agent EXCEPT !.state = "communicating"], message)
    ELSE IF message.message_type \in Unhandled
    THEN [agent EXCEPT !.state = "communicating", !.pc = "raised"]
    ELSE [agent EXCEPT !.state = "active", !.pc = "running",
                       !.performance_metrics.messages_processed = @ + 1]

Popped(agent) == [agent EXCEPT !.message_queue = Tail(agent.message_queue)]

\* Agent._process_message_queue, up to its end, a suspension or an exception
RECURSIVE _process_message_queue(_)
_process_message_queue(agent) ==
    IF Len(agent.message_queue) = 0 THEN [agent EXCEPT !.pc = "running"]
    ELSE With(_handle_message(Popped(agent), Head(agent.message_queue)), LAMBDA handled :
            IF handled.pc = "running" THEN _process_message_queue(handled) ELSE handled)

\* Agent._update_activation_energy
_update_activation_energy(agent) ==
    [agent EXCEPT !.activation_energy =
        Scale \div 2 + Min(300, Len(agent.message_queue) * 100)
                     + Min(200, Min(Len(agent.task_history), 10) * 20)]

\* Agent._execute_capability_operations with _scan_for_patterns
_execute_capability_operations(agent) ==
    IF "pattern_recognition" \in agent.profile.capabilities
    THEN [agent EXCEPT !.pattern_buffer = Min(agent.pattern_buffer + 1, 100)]
    ELSE agent

\* tasks_completed / max(1, tasks_completed + errors_encountered)
SuccessRate(m) ==
    (m.tasks_completed * Scale) \div Max(1, m.tasks_completed + m.errors_encountered)

Clamp(threshold) == Max(100, Min(900, threshold))

Adjusted(threshold, success_rate) ==
    IF success_rate > 800 THEN Clamp(Mul(threshold, 990))
    ELSE IF success_rate < 500 THEN Clamp(Mul(threshold, 1010))
    ELSE Clamp(threshold)

\* Agent._perform_learning_iteration
_perform_learning_iteration(agent) ==
    IF Len(agent.task_history) < 2 THEN agent
    ELSE [agent EXCEPT !.profile.activation_threshold =
                            Adjusted(@, SuccessRate(agent.performance_metrics)),
                       !.performance_metrics.learning_iterations = @ + 1]

Learned(agent) ==
    IF "recursive_learning" \in agent.profile.capabilities
    THEN _perform_learning_iteration(agent) ELSE agent

\* the rest of a cycle of _agent_main_loop once the queue is empty, at time t
EndCycle(agent, t) ==
    [Learned(_execute_capability_operations(_update_activation_energy(agent)))
        EXCEPT !.last_activity = t, !.pc = "sleeping"]

\* the except branch of _agent_main_loop
Recover(agent) ==
    [agent EXCEPT !.performance_metrics.errors_encountered = @ + 1, !.pc = "sleeping"]

\* where a cycle of _agent_main_loop gets to once the queue has been worked on
Cycle(worked, t) ==
    IF worked.pc = "running" THEN EndCycle(worked, t)
    ELSE IF worked.pc = "raised" THEN Recover(worked)
    ELSE worked

\* Agent._agent_main_loop at time t: from the loop's sleep, or from the sleep
\* of a computation, to the next sleep or to the end of the loop
MainLoopRun(agent, t) ==
    IF agent.pc = "computing"
    THEN With(_process_message_queue(Handled([agent EXCEPT !.last_result = "completed"])),
              LAMBDA worked : Cycle(worked, t))
    ELSE IF agent.state \in {"error", "terminated"} THEN [agent EXCEPT !.pc = "stopped"]
    ELSE With(_process_message_queue(agent), LAMBDA worked : Cycle(worked, t))

----------------------------------------------------------------------------
(* agent_activator.py: AgentActivator *)

\* AgentActivator.__init__: the default of agent_cleanup_interval
agent_cleanup_interval == 300

\* the limit of the coordinator of the model (config "max_agents")
max_agents == 2

\* the coordinator's dictionaries: agents lists the registered agents in
\* insertion order, objs every Agent object made so far
Coordinator(registry, objs, profiles) ==
    [agents |-> registry, objs |-> objs, profiles |-> profiles]

\* the id of the a-th agent made
AgentId(a) == <<"agent", a>>

\* AgentActivator.register_agent_profile
register_agent_profile(c, agent_type, capabilities, position) ==
    [c EXCEPT !.profiles = Append(c.profiles,
        AgentProfile(<<"", 0>>, agent_type, capabilities, position, default_activation_threshold))]

\* AgentActivator.register_agent_profile with the keyword memory_capacity
register_agent_profile_with(c, agent_type, capabilities, position, capacity) ==
    [c EXCEPT !.profiles = Append(c.profiles,
        [AgentProfile(<<"", 0>>, agent_type, capabilities, position,
                      default_activation_threshold) EXCEPT !.memory_capacity = capacity])]

\* AgentActivator._remove_agent
_remove_agent(c, a) ==
    IF \E j \in 1..Len(c.agents) : c.agents[j] = a
    THEN [c EXCEPT !.objs[a] = terminate(c.objs[a]),
                   !.agents = SelectSeq(c.agents, LAMBDA b : b # a)]
    ELSE c

RECURSIVE RemoveAgents(_, _)
RemoveAgents(c, ids) ==
    IF Len(ids) = 0 THEN c ELSE RemoveAgents(_remove_agent(c, Head(ids)), Tail(ids))

\* the agents in the order of the registry
InOrder(c) == c.agents

\* sorted(self.agents.items(), key=lambda x: x[1].last_activity)
ByActivity(c) ==
    With(SortDesc(Eager([j \in 1..Len(c.agents) |->
                            [k |-> 0 - c.objs[c.agents[j]].last_activity, a |-> c.agents[j]]])),
         LAMBDA sorted : Eager([j \in 1..Len(sorted) |-> sorted[j].a]))

\* the registry left as it is
KeepAgents(c, count) == c

\* AgentActivator._cleanup_inactive_agents
_cleanup_inactive_agents(c, count) ==
    IF Len(c.agents) = 0 THEN c
    ELSE With(ByActivity(c), LAMBDA agents_by_activity :
            RemoveAgents(c, Take(agents_by_activity, count)))

MakeRoom(c) == IF Len(c.agents) >= max_agents THEN _cleanup_inactive_agents(c, 1) ELSE c

\* the new Agent is made, activated and registered
Enrol(c, profile, t) ==
    [c EXCEPT !.objs = Append(c.objs,
                    activate(Agent([profile EXCEPT !.agent_id = AgentId(Len(c.objs) + 1)], t), t)),
              !.agents = Append(c.agents, Len(c.objs) + 1)]

\* AgentActivator.activate_agent at time t
activate_agent(c, profile_id, t) ==
    IF profile_id \notin 1..Len(c.profiles) THEN c
    ELSE With(MakeRoom(c), LAMBDA room : Enrol(room, c.profiles[profile_id], t))

\* cos and sin of 2 pi i / count, and sin of twice that angle, for i = 0 .. count - 1
UnitCircle ==
    << << <<1000, 0, 0>> >>,
       << <<1000, 0, 0>>, <<-1000, 0, 0>> >>,
       << <<1000, 0, 0>>, <<-500, 866, -866>>, <<-500, -866, 866>> >>,
       << <<1000, 0, 0>>, <<0, 1000, 0>>, <<-1000, 0, 0>>, <<0, -1000, 0>> >> >>

\* spread_radius * (0.5 + 0.5 * (i / count))
SwarmRadius(spread_radius, i, count) == Mul(spread_radius, 500 + (500 * i) \div count)

SwarmPosition(center, radius, angle, i) ==
    ScrollVector(center[1] + Mul(radius, angle[1]), center[2] + Mul(radius, angle[2]),
                 center[3] + Mul(Mul(radius, 100), angle[3]), center[4], center[5] + i * 100)

\* the steps i, i + 1, .. of the loop of activate_agent_swarm
RECURSIVE SwarmFrom(_, _, _, _, _, _, _, _)
SwarmFrom(c, i, agent_type, count, capabilities, center_position, spread_radius, t) ==
    IF i >= count THEN c
    ELSE With(register_agent_profile(c, agent_type \o <<"swarm", i>>, capabilities,
                    SwarmPosition(center_position, SwarmRadius(spread_radius, i, count),
                                  UnitCircle[count][i + 1], i)),
              LAMBDA registered :
         With(activate_agent(registered, Len(registered.profiles), t), LAMBDA activated :
              SwarmFrom(activated, i + 1, agent_type, count, capabilities, center_position,
                        spread_radius, t)))

\* AgentActivator.activate_agent_swarm at time t
activate_agent_swarm(c, agent_type, count, capabilities, center_position, spread_radius, t) ==
    SwarmFrom(c, 0, agent_type, count, capabilities, center_position, spread_radius, t)

\* the broker left in the order of arrival
Unsorted(broker) == broker

\* self.message_broker.sort(key=lambda m: m.priority, reverse=True)
SortBroker(broker) ==
    With(SortDesc(Eager([j \in 1..Len(broker) |-> [k |-> broker[j].priority, m |-> broker[j]]])),
         LAMBDA sorted : Eager([j \in 1..Len(sorted) |-> sorted[j].m]))

\* a delivery that does not spare the sender of a broadcast
DeliverToAll(c, message) ==
    IF message.receiver_id = Broadcast
    THEN [c EXCEPT !.objs = Eager([a \in 1..Len(c.objs) |->
            IF \E j \in 1..Len(c.agents) : c.agents[j] = a
            THEN add_message(c.objs[a], message) ELSE c.objs[a]])]
    ELSE IF \E j \in 1..Len(c.agents) : AgentId(c.agents[j]) = message.receiver_id
    THEN [c EXCEPT !.objs[message.receiver_id[2]] = add_message(@, message)]
    ELSE c

\* AgentActivator._deliver_message
_deliver_message(c, message) ==
    IF message.receiver_id = Broadcast
    THEN [c EXCEPT !.objs = Eager([a \in 1..Len(c.objs) |->
            IF (\E j \in 1..Len(c.agents) : c.agents[j] = a)
               /\ c.objs[a].profile.agent_id # message.sender_id
            THEN add_message(c.objs[a], message) ELSE c.objs[a]])]
    ELSE IF \E j \in 1..Len(c.agents) : AgentId(c.agents[j]) = message.receiver_id
    THEN [c EXCEPT !.objs[message.receiver_id[2]] = add_message(@, message)]
    ELSE c

RECURSIVE DeliverAll(_, _)
DeliverAll(c, broker) ==
    IF Len(broker) = 0 THEN c ELSE DeliverAll(_deliver_message(c, Head(broker)), Tail(broker))

\* the agents the sweep of _agent_lifecycle_manager finds at time t
InactiveAgents(c, t) ==
    SelectSeq(c.agents, LAMBDA a : \/ c.objs[a].state = "error"
                                   \/ c.objs[a].state = "terminated"
                                   \/ t - c.objs[a].last_activity > idle_limit)

----------------------------------------------------------------------------
(* The agent activator as a state machine *)

\* Agent objects made in one run
MaxActivations == 3

\* messages sent in one run
MaxMessages == 1

\* terminate calls of callers in one run
MaxTerminations == 1

\* cleanup intervals that pass in one run
MaxSweeps == 1

\* the capabilities of the profiles of the model
Worker == {"scrollmath_computation", "memory_processing"}

\* the profiles a caller registers
ProfileCalls == { <<<<"worker">>, Worker, ScrollVector(0, 0, 0, 0, 0)>> }

\* the swarms a caller activates: count
SwarmCalls == {3}

\* the messages a caller sends: message_type, content, priority
MessageCalls ==
    { <<"task_assignment", [type |-> "scrollmath_compute", task_id |-> "t1"], 1>>,
      <<"task_assignment", [type |-> "memory_process", task_id |-> "t2",
                            memory_data |-> <<"m">>], 2>>,
      <<"status_query", [type |-> "none"], 1>> }

TheCoordinator == Coordinator(agents, agent_objs, agent_profiles)

\* AgentActivator.__init__: the lifecycle manager sleeps first
InitAgents ==
    /\ agent_clock = 0
    /\ agents = <<>>
    /\ agent_objs = <<>>
    /\ agent_profiles = <<>>
    /\ message_broker = <<>>
    /\ lifecycle_due = agent_cleanup_interval
    /\ sent = 0
    /\ terminated = 0

Becomes(c) ==
    /\ agents' = c.agents
    /\ agent_objs' = c.objs
    /\ agent_profiles' = c.profiles

\* a caller registers a profile
RegisterProfile(agent_type, capabilities, position) ==
    /\ \A j \in 1..Len(agent_profiles) : agent_profiles[j].agent_type # agent_type
    /\ Becomes(register_agent_profile(TheCoordinator, agent_type, capabilities, position))
    /\ UNCHANGED <<agent_clock, message_broker, lifecycle_due, sent, terminated>>
    /\ UNCHANGED <<memVars, meshVars, fieldVars>>

\* a caller registers a profile with a memory capacity of its own
RegisterProfileWith(agent_type, capabilities, position, capacity) ==
    /\ \A j \in 1..Len(agent_profiles) : agent_profiles[j].agent_type # agent_type
    /\ Becomes(register_agent_profile_with(TheCoordinator, agent_type, capabilities, position,
                                           capacity))
    /\ UNCHANGED <<agent_clock, message_broker, lifecycle_due, sent, terminated>>
    /\ UNCHANGED <<memVars, meshVars, fieldVars>>

\* a caller activates an agent from a registered profile
ActivateAgent(profile_id) ==
    /\ Len(agent_objs) < MaxActivations
    /\ \E c \in {activate_agent(TheCoordinator, profile_id, agent_clock)} : Becomes(c)
    /\ UNCHANGED <<agent_clock, message_broker, lifecycle_due, sent, terminated>>
    /\ UNCHANGED <<memVars, meshVars, fieldVars>>

\* a caller activates a swarm
ActivateSwarm(count) ==
    /\ Len(agent_objs) + count <= MaxActivations
    /\ \E c \in {activate_agent_swarm(TheCoordinator, <<"swarm">>, count, Worker,
                                       ScrollVector(0, 0, 0, 0, 0), Scale, agent_clock)} :
            Becomes(c)
    /\ UNCHANGED <<agent_clock, message_broker, lifecycle_due, sent, terminated>>
    /\ UNCHANGED <<memVars, meshVars, fieldVars>>

\* AgentActivator.send_message
send_message(sender_id, receiver_id, message_type, content, priority) ==
    /\ message_broker' = Append(message_broker,
            AgentMessage(<<"msg", sent>>, sender_id, receiver_id, message_type, content,
                         priority))
    /\ sent' = sent + 1
    /\ UNCHANGED <<agent_clock, agents, agent_objs, agent_profiles, lifecycle_due, terminated>>
    /\ UNCHANGED <<memVars, meshVars, fieldVars>>

\* AgentActivator._message_broker_loop: one cycle with something to deliver
_message_broker_loop ==
    /\ Len(message_broker) > 0
    /\ \E sorted \in {SortBroker(message_broker)} :
       \E c \in {DeliverAll(TheCoordinator, sorted)} : Becomes(c)
    /\ message_broker' = <<>>
    /\ UNCHANGED <<agent_clock, lifecycle_due, sent, terminated>>
    /\ UNCHANGED <<memVars, meshVars, fieldVars>>

\* Agent._agent_main_loop of the a-th agent made
_agent_main_loop(a) ==
    /\ agent_objs[a].pc \in {"sleeping", "computing"}
    /\ \E agent \in {MainLoopRun(agent_objs[a], agent_clock)} :
            agent_objs' = [agent_objs EXCEPT ![a] = agent]
    /\ UNCHANGED <<agent_clock, agents, agent_profiles, message_broker, lifecycle_due, sent, terminated>>
    /\ UNCHANGED <<memVars, meshVars, fieldVars>>

\* a caller terminates the a-th agent made
Terminate(a) ==
    /\ terminated < MaxTerminations
    /\ terminated' = terminated + 1
    /\ agent_objs' = [agent_objs EXCEPT ![a] = terminate(agent_objs[a])]
    /\ UNCHANGED <<agent_clock, agents, agent_profiles, message_broker, lifecycle_due, sent>>
    /\ UNCHANGED <<memVars, meshVars, fieldVars>>

\* AgentActivator._agent_lifecycle_manager: the sweep after its sleep
_agent_lifecycle_manager ==
    /\ agent_clock >= lifecycle_due
    /\ \E inactive_agents \in {InactiveAgents(TheCoordinator, agent_clock)} :
       \E c \in {RemoveAgents(TheCoordinator, inactive_agents)} : Becomes(c)
    /\ lifecycle_due' = agent_clock + agent_cleanup_interval
    /\ UNCHANGED <<agent_clock, message_broker, sent, terminated>>
    /\ UNCHANGED <<memVars, meshVars, fieldVars>>

\* a cleanup interval passes
TickAgents ==
    /\ agent_clock < MaxSweeps * agent_cleanup_interval
    /\ agent_clock' = agent_clock + agent_cleanup_interval
    /\ UNCHANGED <<agents, agent_objs, agent_profiles, message_broker, lifecycle_due, sent, terminated>>
    /\ UNCHANGED <<memVars, meshVars, fieldVars>>

\* the profile ids that register_agent_profile has returned to a caller
Registered == {j \in 1..Len(agent_profiles) : Len(agent_profiles[j].agent_type) = 1}

\* the ids a caller names as the receiver of a message
Receivers == {Broadcast} \cup {AgentId(a) : a \in 1..Min(1, Len(agent_objs))}

NextAgents ==
    \/ \E c \in ProfileCalls : RegisterProfile(c[1], c[2], c[3])
    \/ \E profile_id \in Registered : ActivateAgent(profile_id)
    \/ \E count \in SwarmCalls : ActivateSwarm(count)
    \/ \E r \in Receivers : \E c \in MessageCalls :
            sent < MaxMessages /\ send_message(<<"client", 0>>, r, c[1], c[2], c[3])
    \/ _message_broker_loop
    \/ \E a \in 1..Len(agent_objs) : _agent_main_loop(a)
    \/ \E a \in 1..Len(agent_objs) : Terminate(a)
    \/ _agent_lifecycle_manager
    \/ TickAgents

\* messages that wait in the broker in one run of the broker alone
MaxPending == 3

\* a task no agent of the model supports
Report == [type |-> "report", task_id |-> "t4"]

\* the messages sent in the runs of the broker alone: sender, receiver, priority
BrokerCalls ==
    { <<<<"client", 0>>, Broadcast, 1>>, <<AgentId(1), Broadcast, 2>>,
      <<<<"client", 0>>, AgentId(1), 1>>, <<<<"client", 0>>, AgentId(1), 2>>,
      <<AgentId(1), AgentId(2), 1>> }

\* the broker with agents and callers that send, without the clock
NextBroker ==
    \/ \E c \in ProfileCalls : RegisterProfile(c[1], c[2], c[3])
    \/ \E profile_id \in Registered : ActivateAgent(profile_id)
    \/ \E c \in BrokerCalls :
            sent < MaxPending /\ send_message(c[1], c[2], "task_assignment", Report, c[3])
    \/ _message_broker_loop
    \/ \E a \in 1..Len(agent_objs) : _agent_main_loop(a)

\* task messages sent in one run of the agents with tasks
MaxAssignments == 2

\* the capabilities of the second profile of these runs
Solver == {"scrollmath_computation"}

\* the profiles a caller registers in these runs
TaskProfileCalls ==
    { <<<<"worker">>, Worker, ScrollVector(0, 0, 0, 0, 0)>>,
      <<<<"solver">>, Solver, ScrollVector(0, 0, 0, 0, 0)>> }

\* the tasks a caller assigns in these runs
TaskCalls ==
    { [type |-> "scrollmath_compute", task_id |-> "t1"],
      [type |-> "memory_process", task_id |-> "t2", memory_data |-> <<"m">>],
      [type |-> "pattern_analyze", task_id |-> "t3"],
      Report }

\* agents of two profiles and callers that assign tasks, without the clock
NextTasks ==
    \/ \E c \in TaskProfileCalls : RegisterProfile(c[1], c[2], c[3])
    \/ \E profile_id \in Registered : ActivateAgent(profile_id)
    \/ \E a \in 1..Len(agent_objs) : \E content \in TaskCalls :
            sent < MaxAssignments
                /\ send_message(<<"client", 0>>, AgentId(a), "task_assignment", content, 1)
    \/ _message_broker_loop
    \/ \E a \in 1..Len(agent_objs) : _agent_main_loop(a)

\* the memory capacity of the profile of the runs with a small local memory
SmallCapacity == 3

\* the capabilities of that profile
Keeper == {"memory_processing"}

\* the memory_process tasks a caller assigns in these runs
MemoryCalls ==
    { [type |-> "memory_process", task_id |-> "t5", memory_data |-> <<"a1", "a2">>],
      [type |-> "memory_process", task_id |-> "t6", memory_data |-> <<"b1", "b2">>] }

\* agents with a small local memory and callers that assign memory_process tasks
NextLocalMemory ==
    \/ RegisterProfileWith(<<"keeper">>, Keeper, ScrollVector(0, 0, 0, 0, 0), SmallCapacity)
    \/ \E profile_id \in Registered : ActivateAgent(profile_id)
    \/ \E a \in 1..Len(agent_objs) : \E content \in MemoryCalls :
            sent < MaxAssignments
                /\ send_message(<<"client", 0>>, AgentId(a), "task_assignment", content, 1)
    \/ _message_broker_loop
    \/ \E a \in 1..Len(agent_objs) : _agent_main_loop(a)

\* agents, callers that assign a computation and terminate agents, the
\* lifecycle manager and the clock
NextLifecycle ==
    \/ \E c \in ProfileCalls : RegisterProfile(c[1], c[2], c[3])
    \/ \E profile_id \in Registered : ActivateAgent(profile_id)
    \/ \E a \in 1..Len(agent_objs) :
            sent < MaxMessages
                /\ send_message(<<"client", 0>>, AgentId(a), "task_assignment",
                                [type |-> "scrollmath_compute", task_id |-> "t1"], 1)
    \/ _message_broker_loop
    \/ \E a \in 1..Len(agent_objs) : _agent_main_loop(a)
    \/ \E a \in 1..Len(agent_objs) : Terminate(a)
    \/ _agent_lifecycle_manager
    \/ TickAgents


-----------------------------------------------------------------------------
(* Symbolic field computer (symbolic_field_computer.py).  An expression is a
   polynomial in the five symbols of vars_5d: a sequence of terms, each a
   coefficient and one exponent per symbol.  Components of a vector are
   whole numbers here. *)

\* SymbolicFieldComputer.vars_5d: the symbols x y z t s, by position
vars_5d == 1..5

\* b ** n for a whole exponent
Pow(b, n) == IF n = 0 THEN 1 ELSE b ^ n

Term(c, ex, ey, ez, et, es) == [c |-> c, e |-> <<ex, ey, ez, et, es>>]

\* the strings of the callers that sympify takes
Parses(expr_str) == expr_str \in {"x**2", "y**2", "z**2", "x*y + 1", "2*s"}

\* sp.sympify(expr_str, locals=self.vars_dict) on the strings of the callers
sympify(expr_str) ==
    CASE expr_str = "x**2" -> << Term(1, 2, 0, 0, 0, 0) >>
      [] expr_str = "y**2" -> << Term(1, 0, 2, 0, 0, 0) >>
      [] expr_str = "z**2" -> << Term(1, 0, 0, 2, 0, 0) >>
      [] expr_str = "x*y + 1" -> << Term(1, 1, 1, 0, 0, 0), Term(1, 0, 0, 0, 0, 0) >>
      [] expr_str = "2*s" -> << Term(2, 0, 0, 0, 0, 1) >>
      [] OTHER -> <<>>

\* parsed_expr.free_symbols, as positions in vars_5d
free_symbols(expr) == {v \in vars_5d : \E k \in 1..Len(expr) : expr[k].e[v] > 0}

\* list(set): the elements of the set in every order the hash seed can give
RECURSIVE Orders(_)
Orders(S) ==
    IF S = {} THEN { <<>> }
    ELSE UNION { { <<v>> \o rest : rest \in Orders(S \ {v}) } : v \in S }

SymbolicExpression(expression, variables) ==
    [expression |-> expression, variables |-> variables]

\* the substitutions of evaluate_at_vector: the k-th name of variables takes
\* the k-th component of the vector
Substituted(variables, vector, v) ==
    IF \E k \in 1..Len(variables) : variables[k] = v
    THEN vector[CHOOSE k \in 1..Len(variables) : variables[k] = v]
    ELSE 0

TermValue(term, val) ==
    term.c * Pow(val[1], term.e[1]) * Pow(val[2], term.e[2]) * Pow(val[3], term.e[3])
           * Pow(val[4], term.e[4]) * Pow(val[5], term.e[5])

RECURSIVE PolyValue(_, _, _)
PolyValue(expr, val, k) ==
    IF k > Len(expr) THEN 0 ELSE TermValue(expr[k], val) + PolyValue(expr, val, k + 1)

\* SymbolicExpression.evaluate_at_vector.  The keys of the substitutions are
\* the names of the symbols, as strings: when subs does not take a name for
\* the real-valued symbol of vars_5d (matches = FALSE) the expression stays
\* symbolic, complex() raises and the handler returns 0.
evaluate_at_vector(e, vector, matches) ==
    IF free_symbols(e.expression) # {} /\ ~matches THEN 0
    ELSE PolyValue(e.expression,
                   Eager([v \in vars_5d |-> Substituted(e.variables, vector, v)]), 1)

\* the expressions create_symbolic_field can make of the strings from the
\* k-th on: a string that does not parse is skipped
RECURSIVE FieldExpressions(_, _)
FieldExpressions(expressions, k) ==
    IF k > Len(expressions) THEN { <<>> }
    ELSE IF ~Parses(expressions[k]) THEN FieldExpressions(expressions, k + 1)
    ELSE With(sympify(expressions[k]), LAMBDA parsed_expr :
                 { <<SymbolicExpression(parsed_expr, var_names)>> \o rest :
                      var_names \in Orders(free_symbols(parsed_expr)),
                      rest \in FieldExpressions(expressions, k + 1) })

SymbolicField(expressions, field_name) ==
    [expressions |-> expressions, field_name |-> field_name]

\* SymbolicFieldComputer.compute_field_at_vector: the value of expr_i is the
\* entry i + 1 of the result
compute_field_at_vector(fields, field_id, vector, matches) ==
    IF field_id \notin 1..Len(fields) THEN <<>>
    ELSE Eager([i \in 1..Len(fields[field_id].expressions) |->
                evaluate_at_vector(fields[field_id].expressions[i], vector, matches)])

MaxFields == 2

\* the fields a caller creates: name, expressions
FieldCalls ==
    { <<"test_field", <<"x**2", "y**2", "z**2">> >>,
      <<"mixed", <<"x*y + 1", "x +", "2*s">> >> }

\* the vectors a caller evaluates at: x, y, z, temporal, symbolic
FieldVectors == { <<2, 3, 4, 0, 0>>, <<1, 2, 0, 3, 5>> }

\* SymbolicFieldComputer.__init__
InitField ==
    /\ symbolic_fields = <<>>
    /\ field_ret = [op |-> "none"]

\* SymbolicFieldComputer.create_symbolic_field
CreateField(name, expressions) ==
    /\ Len(symbolic_fields) < MaxFields
    /\ \E field_expressions \in FieldExpressions(expressions, 1) :
          symbolic_fields' = Append(symbolic_fields, SymbolicField(field_expressions, name))
    /\ field_ret' = [op |-> "create", field_id |-> Len(symbolic_fields) + 1]
    /\ UNCHANGED <<memVars, meshVars, agentVars>>

\* a caller evaluates a field, known or not, at a vector
ComputeField(field_id, vector) ==
    /\ \E matches \in BOOLEAN :
          field_ret' = [op |-> "compute", field_id |-> field_id, vector |-> vector,
                        matches |-> matches,
                        results |-> compute_field_at_vector(symbolic_fields, field_id,
                                                            vector, matches)]
    /\ UNCHANGED symbolic_fields
    /\ UNCHANGED <<memVars, meshVars, agentVars>>

NextField ==
    \/ \E c \in FieldCalls : CreateField(c[1], c[2])
    \/ \E field_id \in 1..(MaxFields + 1) : \E vector \in FieldVectors :
            ComputeField(field_id, vector)
----------------------------------------------------------------------------
(* Specifications: the three components share no state, each is run on its own *)

Init == InitMem /\ InitMesh /\ InitAgents /\ InitField

SpecMem == Init /\ [][NextMem]_vars

\* the same with the loaded memory manager
InitAtLoad == InitLoaded /\ InitMesh /\ InitAgents /\ InitField

SpecLoaded == InitAtLoad /\ [][NextMem]_vars

FairSpecMem ==
    SpecMem /\ \A i \in 1..MaxSearches : WF_vars(i \in 1..Len(rec_tasks) /\ _execute_recursive_computation(i))

SpecMesh == Init /\ [][NextMesh]_vars

SpecAgents == Init /\ [][NextAgents]_vars

SpecMeshFault == Init /\ [][NextMeshFault]_vars

\* every task created by asyncio.create_task is scheduled until it ends
FairSpecMeshFault ==
    SpecMeshFault /\ \A i \in 1..MaxTasks : WF_vars(i \in 1..Len(mesh_runs) /\ _execute_mesh_task(i))

SpecBroker == Init /\ [][NextBroker]_vars

SpecTasks == Init /\ [][NextTasks]_vars

SpecLocalMemory == Init /\ [][NextLocalMemory]_vars

SpecStore == Init /\ [][NextStore]_vars

SpecLifecycle == Init /\ [][NextLifecycle]_vars

\* the event loop runs the lifecycle manager and every agent's main loop
\* whenever they are ready, and time passes
FairSpecLifecycle ==
    /\ SpecLifecycle
    /\ WF_vars(_agent_lifecycle_manager)
    /\ WF_vars(TickAgents)
    /\ \A a \in 1..MaxActivations : WF_vars(a \in 1..Len(agent_objs) /\ _agent_main_loop(a))

\* the event loop runs the broker, the lifecycle manager and every agent's main
\* loop whenever they are ready, and time passes
FairSpecAgents ==
    /\ SpecAgents
    /\ WF_vars(_message_broker_loop)
    /\ WF_vars(_agent_lifecycle_manager)
    /\ WF_vars(TickAgents)
    /\ \A a \in 1..MaxActivations : WF_vars(a \in 1..Len(agent_objs) /\ _agent_main_loop(a))

SpecSearches == Init /\ [][NextSearches]_vars

SpecField == Init /\ [][NextField]_vars

\* the memory manager after the stores of StockCalls
InitAtStock == InitStocked /\ InitMesh /\ InitAgents /\ InitField

SpecRecall == InitAtStock /\ [][NextRecall]_vars

\* the mesh with a configured node limit
InitAtLimit == InitMem /\ InitMeshConfigured /\ InitAgents /\ InitField

SpecMeshCap == InitAtLimit /\ [][NextMesh]_vars

SpecShutdown == Init /\ [][NextShutdown]_vars
----------------------------------------------------------------------------
(* Properties of the memory manager *)

DeepestLayer == recursion_layers[max_recursion_depth - 1]

\* C1: in every reachable state, whatever stores (direct or made by a search),
\* retrievals and cleanup sweeps came before, each recursion layer d holds at
\* most max(100, 1000 - 100 * d) fragments.
C1_LayerWithinCapacity ==
    \A d \in Depths :
        Len(recursion_layers[d]) <= (IF 1000 - 100 * d > 100 THEN 1000 - 100 * d ELSE 100)

\* the deepest layer is full and its oldest fragment has been evicted for a new one
C1_FullLayerEvicted ==
    /\ Len(DeepestLayer) = 100
    /\ \A i \in 1..Len(DeepestLayer) : DeepestLayer[i].id # LoadId(1)
    /\ \E i \in 1..Len(DeepestLayer) : DeepestLayer[i].ts = StartTime

\* C5: when store(content, v) has returned the id f and retrieve(v, k, minSimilarity)
\* is the next operation, the fragments returned contain f, whatever the store held.
C5_StoredIsRetrieved ==
    (ret.op = "retrieve" /\ ret.after_store # NoId /\ rec_tasks = <<>>)
        => \E j \in 1..Len(ret.found) : ret.found[j].id = ret.after_store

\* a field_convergence search from a non-zero vector, started on an empty store
\* and alone with it (no caller has stored, retrieved or let time pass)
AloneOnEmptyStore(i) ==
    /\ rec_tasks[i].pc # "created"
    /\ rec_tasks[i].empty_start
    /\ calls = 0
    /\ rec_states[rec_tasks[i].st].computation_type = "field_convergence"
    /\ rec_states[rec_tasks[i].st].history[1] # ZeroVector

\* C6: such a search decays its vector by 0.95, with a strictly smaller magnitude,
\* at every iteration, and ends only when that change is below 1e-6 or the
\* iteration count has reached max_iterations.
C6_DecaysUntilSmallOrCapped ==
    \A i \in 1..Len(rec_tasks) :
        AloneOnEmptyStore(i) =>
            LET st == rec_states[rec_tasks[i].st]
            IN  /\ \A n \in 2..Len(st.history) :
                        /\ st.history[n] = DecayTowardsOrigin(st.history[n - 1])
                        /\ magnitude(st.history[n]) < magnitude(st.history[n - 1])
                /\ rec_tasks[i].pc = "done" =>
                        \/ BelowConvergenceThreshold(
                                VecSub(DecayTowardsOrigin(st.current_vector), st.current_vector))
                        \/ st.iteration = st.max_iterations

Terminal == {"converged", "max_iterations_reached"}

LastStepSmall(st) == st.last_diff # <<>> /\ BelowConvergenceThreshold(st.last_diff[1])

\* C8: the status of a search is converged exactly when the last step computed
\* had a change below 1e-6; a search that has ended is max_iterations_reached
\* exactly when its iteration counter has reached max_iterations without such a
\* step; the counter never exceeds max_iterations.
C8_StatusReflectsEnd ==
    /\ \A h \in 1..Len(rec_states) :
          /\ rec_states[h].iteration <= rec_states[h].max_iterations
          /\ rec_states[h].status = "converged" <=> LastStepSmall(rec_states[h])
    /\ \A i \in 1..Len(rec_tasks) :
          rec_tasks[i].pc = "done" =>
              LET st == rec_states[rec_tasks[i].st]
              IN  st.status = "max_iterations_reached"
                      <=> (st.iteration = st.max_iterations /\ ~LastStepSmall(st))

\* a search has converged after an iteration: its last step changed nothing
C8_ConvergedAfterStep ==
    \E i \in 1..Len(rec_tasks) :
        /\ rec_tasks[i].pc = "done"
        /\ rec_states[rec_tasks[i].st].status = "converged"
        /\ rec_states[rec_tasks[i].st].iteration >= 1
        /\ rec_states[rec_tasks[i].st].last_diff = <<ZeroVector>>


Ids(frags) == {frags[i].id : i \in 1..Len(frags)}

\* the fragments of before whose id is not in after
Gone(before, after) == {i \in 1..Len(before) : before[i].id \notin Ids(after)}

\* an insert took the layer from before to after: at capacity one fragment
\* of least importance * access count went, below capacity none
EvictionRule(before, after, d) ==
    \E gone \in {Gone(before, after)} :
        IF Len(before) >= max_fragments(d)
        THEN /\ Cardinality(gone) = 1
             /\ \A i \in gone : \A j \in 1..Len(before) : Score(before[i]) <= Score(before[j])
        ELSE gone = {}

\* C13: an insert into a layer at capacity evicts exactly one fragment, one
\* whose importance * access count is least among the fragments the layer
\* held before the insert; an insert into a layer below capacity evicts none.
C13_LeastIsEvicted ==
    [][\A d \in Depths :
            Ids(recursion_layers'[d]) \ Ids(recursion_layers[d]) # {}
                => EvictionRule(recursion_layers[d], recursion_layers'[d], d)]_vars

\* the deepest layer is full after an eviction that spared a fragment with a
\* positive importance * access count
C13_AccessedSpared ==
    /\ Len(DeepestLayer) = max_fragments(max_recursion_depth - 1)
    /\ \A i \in 1..Len(DeepestLayer) : DeepestLayer[i].id # LoadId(1)
    /\ \E i \in 1..Len(DeepestLayer) : Score(DeepestLayer[i]) > 0

\* C22: no public operation passes an exception on to its caller: a failure
\* inside store_memory_fragment is caught and reported as a failure result.
C22_NothingRaised == ret.op = "store" => ~ret.raised

\* the step is a store call of a caller
StoreCall == calls' = calls + 1 /\ ret'.op = "store"

\* C27: a store call, whatever target depth it is given, puts the fragment
\* into exactly one layer with an index in 0 .. max_recursion_depth - 1 and
\* returns the fragment's id.
C27_StoredInOneLayer ==
    [][StoreCall =>
        /\ ~ret'.raised
        /\ Cardinality({d \in 0..(max_recursion_depth - 1) :
                            ret'.id \in Ids(recursion_layers'[d])}) = 1]_vars

\* the store call has put a fragment with a fresh id into layer d
StoredFresh(d) ==
    /\ StoreCall /\ ~ret'.raised
    /\ \A e \in Depths : ret'.id \notin Ids(recursion_layers[e])
    /\ ret'.id \in Ids(recursion_layers'[d])

\* the positions in frags of the fragments linked with the fragment f:
\* f lists them as parents
LinkedTo(frags, f) == {i \in 1..Len(frags) : frags[i].id \in Range(f.parents)}

\* the positions of the fragments other than f with similarity >= th to f
SimilarOthers(frags, f, th) ==
    {i \in 1..Len(frags) : frags[i].id # f.id /\ vector_similarity(f.vec, frags[i].vec) >= th}

\* linked are count of the candidates, and no candidate left out is more
\* similar to f than one that is linked
MostSimilar(frags, f, linked, candidates, count) ==
    /\ linked \subseteq candidates
    /\ Cardinality(linked) = Min(count, Cardinality(candidates))
    /\ \A i \in linked : \A j \in candidates \ linked :
          vector_similarity(f.vec, frags[j].vec) <= vector_similarity(f.vec, frags[i].vec)

\* every link of f into frags is recorded on both ends
BothEnds(frags, f) ==
    \A i \in 1..Len(frags) : (frags[i].id \in Range(f.parents)) <=> (f.id \in Range(frags[i].children))

LinksOf(layers, d, f) ==
    /\ f.id \notin Range(f.parents)
    /\ MostSimilar(layers[d], f, LinkedTo(layers[d], f), SimilarOthers(layers[d], f, 700), 3)
    /\ BothEnds(layers[d], f)
    /\ d > 0 =>
        /\ MostSimilar(layers[d - 1], f, LinkedTo(layers[d - 1], f),
                       SimilarOthers(layers[d - 1], f, 600), 1)
        /\ BothEnds(layers[d - 1], f)

\* C28: a store call links the new fragment to the up to 3 most similar
\* other fragments of its layer with similarity >= 0.7 and to the one most
\* similar fragment of the parent layer with similarity >= 0.6, never to
\* itself, and every link is recorded on both ends.
C28_LinkedToMostSimilar ==
    [][\A d \in Depths : StoredFresh(d) =>
            \A i \in 1..Len(recursion_layers'[d]) :
                recursion_layers'[d][i].id = ret'.id =>
                    LinksOf(recursion_layers', d, recursion_layers'[d][i])]_vars

\* the positions of all fragments: depth and index in the layer
Places(layers) == UNION { {<<d, i>> : i \in 1..Len(layers[d])} : d \in Depths }

\* the places whose access count the step has raised
Hit == {p \in Places(recursion_layers) :
            recursion_layers'[p[1]][p[2]].acc # recursion_layers[p[1]][p[2]].acc}

\* the fragment of before the step that became the fragment f
Before(f) ==
    CHOOSE g \in {recursion_layers[p[1]][p[2]] : p \in Places(recursion_layers)} : g.id = f.id

\* what a retrieve call with these arguments leaves and returns
RetrievePost(query_vector, max_results, similarity_threshold) ==
    /\ Len(ret'.found) <= max_results
    /\ \A j \in 1..Len(ret'.found) :
          vector_similarity(query_vector, ret'.found[j].vec) >= similarity_threshold
    /\ \A j \in 1..Len(ret'.found) : \A k \in j..Len(ret'.found) :
          Score(Before(ret'.found[j])) >= Score(Before(ret'.found[k]))
    /\ \A d \in Depths :
          /\ Len(recursion_layers'[d]) = Len(recursion_layers[d])
          /\ \A i \in 1..Len(recursion_layers[d]) :
                /\ recursion_layers'[d][i].id = recursion_layers[d][i].id
                /\ recursion_layers'[d][i].vec = recursion_layers[d][i].vec
    /\ Cardinality(Hit) = Len(ret'.found)
    /\ \A p \in Hit :
          /\ recursion_layers'[p[1]][p[2]].acc = recursion_layers[p[1]][p[2]].acc + 1
          /\ \E j \in 1..Len(ret'.found) : ret'.found[j] = recursion_layers'[p[1]][p[2]]
    /\ \A p \in Places(recursion_layers) \ Hit :
          /\ recursion_layers'[p[1]][p[2]] = recursion_layers[p[1]][p[2]]
          /\ vector_similarity(query_vector, recursion_layers[p[1]][p[2]].vec)
                >= similarity_threshold
             => /\ Len(ret'.found) = max_results
                /\ \A j \in 1..Len(ret'.found) :
                      Score(Before(ret'.found[j])) >= Score(recursion_layers[p[1]][p[2]])

CleanupStep == cleanup_due' # cleanup_due

\* the fragment is older than the configured lifetime
Old(f) == f.ts < now - fragment_lifetime_days * DaySeconds

\* C30: a sweep of the background cleanup removes a fragment only if it is
\* older than the lifetime and has importance < 0.1 and access count < 2;
\* a fragment that is younger, or of importance >= 0.1, or accessed twice
\* or more, is never removed by it.
C30_CleanupRemovesOnlyExpired ==
    [][CleanupStep =>
        \A d \in Depths : \A i \in 1..Len(recursion_layers[d]) :
            \/ /\ recursion_layers[d][i].id \notin Ids(recursion_layers'[d])
               /\ Old(recursion_layers[d][i])
               /\ recursion_layers[d][i].imp < 100
               /\ recursion_layers[d][i].acc < 2
            \/ \E j \in 1..Len(recursion_layers'[d]) :
                    recursion_layers'[d][j] = recursion_layers[d][i]]_vars

\* a sweep has removed the old fragment of importance 0.05 and kept the old
\* fragments of importance 1.0
C30_OldUnimportantRemoved ==
    /\ cleanup_due > now
    /\ now - fragment_lifetime_days * DaySeconds > StartTime
    /\ recursion_layers[max_recursion_depth - 2] = <<>>
    /\ Len(recursion_layers[max_recursion_depth - 1]) = 2
    /\ \A i \in 1..2 : recursion_layers[max_recursion_depth - 1][i].imp >= 100

\* an old fragment of importance below 0.1 that was returned twice has
\* outlived a sweep
AccessedOldKept ==
    /\ cleanup_due > now
    /\ \E i \in 1..Len(recursion_layers[max_recursion_depth - 2]) :
          /\ Old(recursion_layers[max_recursion_depth - 2][i])
          /\ recursion_layers[max_recursion_depth - 2][i].imp < 100
          /\ recursion_layers[max_recursion_depth - 2][i].acc >= 2

\* the ids of all fragments of the store
AllIds(layers) == UNION {Ids(layers[d]) : d \in Depths}

\* all fragments of the store
AllFragments(layers) == {layers[p[1]][p[2]] : p \in Places(layers)}

\* the step is a pass of the loop of search task i
SearchPass(i) == Len(rec_tasks') = Len(rec_tasks) /\ rec_tasks'[i] # rec_tasks[i]

\* the fragment a pass stores for the state st it has advanced to
IterationFragment(st) ==
    MemoryFragment(FragmentId(IterationContent(st.iteration, st.current_vector), now),
                   st.current_vector, now, 500)

\* what a pass on the search state h has done to the store: an iteration
\* that did not converge has stored one fragment of importance 0.5 at the
\* new current vector, any other pass has stored nothing
PassStores(h) ==
    IF rec_states'[h].iteration # rec_states[h].iteration
    THEN /\ rec_states'[h].iteration = rec_states[h].iteration + 1
         /\ rec_states'[h].status = "running"
         /\ AllIds(recursion_layers') \ AllIds(recursion_layers)
                \subseteq {IterationFragment(rec_states'[h]).id}
         /\ \E f \in AllFragments(recursion_layers') :
               /\ f.id = IterationFragment(rec_states'[h]).id
               /\ f.vec = rec_states'[h].current_vector
               /\ f.imp = 500 /\ f.ts = now /\ f.acc = 0
    ELSE /\ rec_states'[h].current_vector = rec_states[h].current_vector
         /\ AllIds(recursion_layers') = AllIds(recursion_layers)
         /\ \A d \in Depths : Len(recursion_layers'[d]) = Len(recursion_layers[d])

C37_LinksPointIntoStore ==
    \A d \in Depths : \A i \in 1..Len(recursion_layers[d]) :
        Range(recursion_layers[d][i].parents) \cup Range(recursion_layers[d][i].children)
            \subseteq AllIds(recursion_layers)

\* the search state that start_recursive_computation made for task i: the call
\* appends the state and the task together
OwnState(i) == i

\* C39: every call to start_recursive_computation creates a search of its own:
\* the recursion ids are pairwise distinct, also for two searches of the same
\* policy started within the same second, and a pass of the loop of one search
\* works on the state of that search and leaves the state of every other search
\* as it is.
C39_SearchesApart ==
    /\ [](\A i, j \in 1..Len(rec_tasks) : i # j => rec_tasks[i].rid # rec_tasks[j].rid)
    /\ [][\A i \in 1..Len(rec_tasks) : SearchPass(i) =>
            /\ rec_tasks'[i].st = OwnState(i)
            /\ \A h \in 1..Len(rec_states) : h # OwnState(i) => rec_states'[h] = rec_states[h]]_vars

\* C40: every store call adds a new fragment under a fresh id: the id it
\* returns was the id of no stored fragment before, and when the layer that
\* receives the fragment is below its capacity, the layer's fragment count
\* grows by exactly one (no fragment is replaced), also when the same content
\* is stored twice within the same second.
C40_StoreAddsFreshFragment ==
    [][(StoreCall /\ ~ret'.raised) =>
          /\ ret'.id \notin AllIds(recursion_layers)
          /\ \A d \in Depths :
                (/\ ret'.id \in Ids(recursion_layers'[d])
                 /\ Len(recursion_layers[d]) < max_fragments(d))
                => Len(recursion_layers'[d]) = Len(recursion_layers[d]) + 1]_vars
----------------------------------------------------------------------------
(* Properties of the mesh orchestrator *)

\* the nodes of ns that _select_task_nodes may choose at time t
Eligible(ns, t) ==
    {n \in 1..Len(ns) : ns[n].state = "active" /\ t - ns[n].last_heartbeat < timeout_seconds}

\* fieldAffinity * positionResonance * computeCapacity of node n for the field
ScoreOf(ns, n, field) == NodeScore(ns[n], compute_field_gradient(field))

\* targets is a choice that submit_mesh_task may make among the nodes ns at time t
WellChosen(targets, ns, field, t) ==
    /\ Len(targets) <= 3
    /\ \A i, j \in 1..Len(targets) : i # j => targets[i] # targets[j]
    /\ \A i \in 1..Len(targets) : \E n \in Eligible(ns, t) : ns[n].node_id = targets[i]
    /\ \A n \in Eligible(ns, t) :
          (\A i \in 1..Len(targets) : targets[i] # ns[n].node_id)
              => \A i \in 1..Len(targets) :
                    ScoreOf(ns, n, field) <= ScoreOf(ns, NodeAt(ns, targets[i]), field)

\* C9: submit_mesh_task chooses at most 3 pairwise distinct nodes, each active
\* and healthy when the task is submitted, and no eligible node that is left
\* out has a strictly higher score than a chosen one.
C9_TargetsWellChosen ==
    [][Len(tasks') > Len(tasks)
        => WellChosen(tasks'[Len(tasks')].target_nodes, nodes,
                      tasks'[Len(tasks')].input_field, mesh_clock)]_vars

\* a task has three targets, the added node among them, and with it a core
\* node that the two-node remainder of the ranking has pushed out
C9_AddedNodeChosen ==
    \E i \in 1..Len(tasks) :
        /\ Len(tasks[i].target_nodes) = 3
        /\ tasks[i].target_nodes[1] = <<"node", 0>>
        /\ tasks[i].status = "pending"
        /\ Cardinality(Eligible(nodes, mesh_clock)) > 3

\* the vector the subtask of task on the node node_id yields
TransformedAt(task, node_id) ==
    compute_5d_transform(task.input_field, nodes[NodeAt(nodes, node_id)].position)

\* avg is, component by component, the mean of the vectors, rounded down
IsMean(avg, vectors) ==
    \A c \in 1..5 :
        /\ Len(vectors) * avg[c] <= SumComponent(vectors, c)
        /\ SumComponent(vectors, c) < Len(vectors) * avg[c] + Len(vectors)

\* a completed field_transform task with at least one target
Transformed(i) ==
    /\ tasks[i].status = "completed"
    /\ tasks[i].task_type = "field_transform"
    /\ Len(tasks[i].target_nodes) >= 1

\* C10: the aggregate of a completed field_transform task is the
\* component-wise mean of the vectors its nodes produced, and
\* contributing_nodes lists the target nodes, each once.
C10_AggregateIsMean ==
    \A i \in 1..Len(tasks) :
        Transformed(i) =>
            /\ tasks[i].result.kind = "aggregated_transform"
            /\ tasks[i].result.contributing_nodes = tasks[i].target_nodes
            /\ \A j, k \in 1..Len(tasks[i].target_nodes) :
                    j # k => tasks[i].target_nodes[j] # tasks[i].target_nodes[k]
            /\ IsMean(tasks[i].result.aggregated_transform,
                      [j \in 1..Len(tasks[i].target_nodes) |->
                            TransformedAt(tasks[i], tasks[i].target_nodes[j])])

\* a field_transform task over three nodes has completed with a non-zero aggregate
C10_ThreeNodesAveraged ==
    \E i \in 1..Len(tasks) :
        /\ Transformed(i)
        /\ Len(tasks[i].target_nodes) = 3
        /\ tasks[i].result.aggregated_transform # ZeroVector

\* C4: a node that the heartbeat monitor has set to error is never moved to
\* active or computing again.
C4_ErrorIsFinal ==
    [][\A n \in 1..Len(nodes) :
            nodes[n].state = "error" => nodes'[n].state \notin {"active", "computing"}]_vars


\* the statuses at which a task stays
TerminalStatus == {"completed", "failed"}

\* one step of task i's status: pending to executing, executing to a terminal
\* status, and a task without target nodes from pending through executing to
\* completed in one run; a terminal status stays
StatusMove(before, after) ==
    \/ after.status = before.status
    \/ before.status = "pending" /\ after.status = "executing"
    \/ before.status = "pending" /\ after.status = "completed" /\ before.target_nodes = <<>>
    \/ before.status = "executing" /\ after.status \in TerminalStatus

\* C11: every submitted task ends as completed or failed, also when no node
\* is eligible; its status moves only pending -> executing -> completed or
\* failed, a terminal status never changes, and a failed task carries the
\* error in its result.
C11_TaskEnds ==
    /\ \A i \in 1..MaxTasks :
            (i <= Len(tasks)) ~> (i <= Len(tasks) /\ tasks[i].status \in TerminalStatus)
    /\ [][\A i \in 1..Len(tasks) : StatusMove(tasks[i], tasks'[i])]_vars
    /\ [](\A i \in 1..Len(tasks) :
            tasks[i].status = "failed" => tasks[i].result = ErrorResult)

\* one task has failed with its error and a task without eligible nodes has completed
C11_FailedAndEmptyEnded ==
    \E i, j \in 1..Len(tasks) :
        /\ tasks[i].status = "failed" /\ tasks[i].result.kind = "error"
        /\ tasks[j].status = "completed" /\ tasks[j].target_nodes = <<>>

\* the target nodes of task i whose subtask raises
RaisingTargets(i) ==
    SelectSeq(tasks[i].target_nodes,
              LAMBDA id : SubtaskRaises(tasks[i], nodes[NodeAt(nodes, id)]))

\* the target nodes of task i whose subtask returns a value
ReturningTargets(i) ==
    SelectSeq(tasks[i].target_nodes,
              LAMBDA id : ~SubtaskRaises(tasks[i], nodes[NodeAt(nodes, id)]))

\* C12: when the subtask of one target node fails and the subtasks of the
\* other target nodes succeed, the task is aggregated over the results of
\* the nodes that succeeded.
C12_FailedSubtaskSkipped ==
    \A i \in 1..Len(tasks) :
        (/\ mesh_runs[i].pc = "done"
         /\ Len(RaisingTargets(i)) = 1
         /\ Len(ReturningTargets(i)) >= 1)
        => /\ tasks[i].status = "completed"
           /\ tasks[i].result.kind = "aggregated_transform"
           /\ tasks[i].result.contributing_nodes = ReturningTargets(i)

\* the step is a sweep of the heartbeat monitor
MonitorSweep == monitor'.due # monitor.due /\ monitor.pc = "sleeping"

\* the heartbeat of the node is as old as the timeout, or older
Stale(node) == mesh_clock - node.last_heartbeat >= timeout_seconds

AddCall == nodes_added' # nodes_added

\* what a call of add_mesh_node does: at the limit it fails and leaves the
\* registry and every node as they are, otherwise the new node is
\* registered, after the others, and active
AddOutcome ==
    IF Len(nodes) >= node_limit
    THEN nodes' = nodes
    ELSE /\ Len(nodes') = Len(nodes) + 1
         /\ SubSeq(nodes', 1, Len(nodes)) = nodes
         /\ nodes'[Len(nodes')].state = "active"
         /\ \A n \in 1..Len(nodes) : nodes[n].node_id # nodes'[Len(nodes')].node_id

\* C32: the registry never holds more than max_nodes nodes, the core nodes
\* of initialize_mesh included; add_mesh_node at the limit fails and changes
\* nothing, and below the limit registers the new node, active on return.
C32_RegistryWithinLimit ==
    /\ [](Len(nodes) <= node_limit)
    /\ [][AddCall => AddOutcome]_vars

\* shutdown_mesh has been called
ShutdownCalled == monitor.pc # "none" /\ ~orchestration_active

\* shutdown_mesh has been called and no task is left to run: the call has
\* returned, or nothing changes any more until it does
ShutdownOver == ShutdownCalled /\ \A i \in 1..Len(tasks) : tasks[i].status \in TerminalStatus

\* C33: after shutdown_mesh orchestration stays inactive, the heartbeat
\* monitor makes no further sweep, and every node is dormant and stays
\* dormant, also when a task was executing when shutdown_mesh was called.
C33_DormantAfterShutdown ==
    /\ [][ShutdownCalled => ~orchestration_active']_vars
    /\ [][(ShutdownCalled /\ monitor' # monitor) => nodes' = nodes]_vars
    /\ [](ShutdownOver => \A n \in 1..Len(nodes) : nodes[n].state = "dormant")

\* the node is in the hands of the tasks: the mesh runs and neither the
\* heartbeat sweep nor a shutdown has put the node in state error or dormant
InTaskHands(node) == orchestration_active /\ node.state \in {"active", "computing"}

\* C35: under any interleaving of tasks that target the same node, a node is
\* in state computing if and only if its assigned_tasks list is non-empty.
C35_ComputingIffAssigned ==
    \A n \in 1..Len(nodes) : InTaskHands(nodes[n]) =>
        (nodes[n].state = "computing" <=> nodes[n].assigned_tasks # <<>>)

\* the node computes for a task that is still under way
HeldByLiveTask(node) ==
    \E j \in 1..Len(tasks) : /\ tasks[j].status \notin TerminalStatus
                             /\ tasks[j].task_id \in Range(node.assigned_tasks)

\* C36: when a task has reached a terminal state, completed or failed, its id
\* is in no node's assigned_tasks, and none of its target nodes is left in
\* state computing on its account (a target that computes does so for a task
\* that is still under way).
C36_TerminalTaskReleased ==
    \A i \in 1..Len(tasks) : tasks[i].status \in TerminalStatus =>
        /\ \A n \in 1..Len(nodes) : tasks[i].task_id \notin Range(nodes[n].assigned_tasks)
        /\ \A n \in 1..Len(nodes) :
              (nodes[n].node_id \in Range(tasks[i].target_nodes)
               /\ nodes[n].state = "computing") => HeldByLiveTask(nodes[n])
----------------------------------------------------------------------------
(* Properties of the agent activator *)

C3_TerminatedStays ==
    [][\A a \in 1..Len(agent_objs) :
            agent_objs[a].state = "terminated" => agent_objs'[a].state = "terminated"]_vars


\* the agents of the registry
RegisteredAgents == Range(agents)

\* a step that made one agent while the registry was full
ActivatedAtCap == Len(agent_objs') = Len(agent_objs) + 1 /\ Len(agents) >= max_agents

\* C14: activate_agent on a full registry evicts exactly one agent, the
\* registered agent of oldest last_activity; the evicted agent is terminated
\* and out of the registry, which then holds the others and the new agent.
C14_OldestEvicted ==
    [][ActivatedAtCap =>
        \E e \in RegisteredAgents :
            /\ \A b \in RegisteredAgents :
                    agent_objs[e].last_activity <= agent_objs[b].last_activity
            /\ agent_objs'[e].state = "terminated"
            /\ agents' = Append(SelectSeq(agents, LAMBDA b : b # e), Len(agent_objs'))]_vars

\* the second agent made, idle since its activation, was evicted for the third
\* while the first, active since, stays registered
C14_IdleSecondEvicted ==
    /\ Len(agent_objs) = 3
    /\ agents = <<1, 3>>
    /\ agent_objs[2].state = "terminated"
    /\ agent_objs[2].last_activity < agent_objs[1].last_activity

\* a cycle of the message broker: the only step that takes messages from it
BrokerCycle == Len(message_broker') < Len(message_broker)

\* how often the message of that id is in the queue
Count(queue, message_id) ==
    Cardinality({j \in 1..Len(queue) : queue[j].message_id = message_id})

\* how often the step has appended message m to the queue of the a-th agent
Appended(a, m) ==
    Count(agent_objs'[a].message_queue, m.message_id)
        - Count(agent_objs[a].message_queue, m.message_id)

\* C15: a broadcast message is appended exactly once to the queue of every
\* agent registered at delivery time except the sender, and to no other queue.
C15_BroadcastReachesOthers ==
    [][BrokerCycle =>
        \A j \in 1..Len(message_broker) :
            message_broker[j].receiver_id = Broadcast =>
                \A a \in 1..Len(agent_objs) :
                    Appended(a, message_broker[j]) =
                        (IF a \in RegisteredAgents /\ AgentId(a) # message_broker[j].sender_id
                         THEN 1 ELSE 0)]_vars

\* the broadcast of the first agent waits in the queue of another registered
\* agent, and the first agent, registered too, has received nothing
C15_SenderSpared ==
    /\ 1 \in RegisteredAgents
    /\ agent_objs[1].message_queue = <<>>
    /\ agent_objs[1].performance_metrics.messages_processed = 0
    /\ \E a \in RegisteredAgents : \E j \in 1..Len(agent_objs[a].message_queue) :
            /\ agent_objs[a].message_queue[j].receiver_id = Broadcast
            /\ agent_objs[a].message_queue[j].sender_id = AgentId(1)

\* C16: a direct message is appended exactly once to the queue of the named
\* receiver and to no other queue; when the named receiver is not registered
\* at delivery time it reaches no queue and leaves the broker.
C16_DirectReachesReceiver ==
    [][BrokerCycle =>
        /\ message_broker' = <<>>
        /\ \A j \in 1..Len(message_broker) :
            message_broker[j].receiver_id # Broadcast =>
                \A a \in 1..Len(agent_objs) :
                    Appended(a, message_broker[j]) =
                        (IF a \in RegisteredAgents /\ AgentId(a) = message_broker[j].receiver_id
                         THEN 1 ELSE 0)]_vars

\* the first message reached the second agent, its receiver, alone; the two
\* sent after it reached no queue: they named the first agent, evicted by then
C16_DroppedForEvicted ==
    /\ sent = 3
    /\ message_broker = <<>>
    /\ Len(agent_objs) >= 2
    /\ 2 \in RegisteredAgents
    /\ 1 \notin RegisteredAgents
    /\ Len(agent_objs[2].message_queue) = 1
    /\ agent_objs[2].message_queue[1].message_id = <<"msg", 0>>
    /\ agent_objs[2].message_queue[1].receiver_id = AgentId(2)
    /\ \A a \in 1..Len(agent_objs) :
            /\ agent_objs[a].performance_metrics.messages_processed = 0
            /\ a # 2 => agent_objs[a].message_queue = <<>>

\* the messages the step has appended to the queue of the a-th agent
NewMessages(a) ==
    SubSeq(agent_objs'[a].message_queue, Len(agent_objs[a].message_queue) + 1,
           Len(agent_objs'[a].message_queue))

\* the place of the message of that id in the broker: its order of arrival
Arrival(message_id) ==
    CHOOSE j \in 1..Len(message_broker) : message_broker[j].message_id = message_id

\* the messages are in order of priority, highest first, and those of equal
\* priority in order of arrival
InDeliveryOrder(messages) ==
    \A j, k \in 1..Len(messages) :
        j < k => \/ messages[j].priority > messages[k].priority
                 \/ /\ messages[j].priority = messages[k].priority
                    /\ Arrival(messages[j].message_id) < Arrival(messages[k].message_id)

\* message m is addressed to an agent of the registry
HasAddressee(m) ==
    \E a \in RegisteredAgents :
        IF m.receiver_id = Broadcast THEN AgentId(a) # m.sender_id
        ELSE AgentId(a) = m.receiver_id

\* C17: one cycle of the broker delivers the pending messages in order of
\* non-increasing priority, those of equal priority in their order of
\* arrival, and delivers every pending message, so that the broker is empty
\* when the cycle yields.
C17_PriorityOrder ==
    [][BrokerCycle =>
        /\ message_broker' = <<>>
        /\ \A a \in 1..Len(agent_objs) :
            /\ SubSeq(agent_objs'[a].message_queue, 1, Len(agent_objs[a].message_queue))
                    = agent_objs[a].message_queue
            /\ \E messages \in {NewMessages(a)} : InDeliveryOrder(messages)
        /\ \A j \in 1..Len(message_broker) :
            HasAddressee(message_broker[j]) =>
                \E a \in 1..Len(agent_objs) : Appended(a, message_broker[j]) = 1]_vars

\* three messages sent with priorities 1, 2, 1 wait in one queue: the second
\* first, then the first and the third
C17_SecondOvertakes ==
    \E a \in 1..Len(agent_objs) :
        /\ Len(agent_objs[a].message_queue) = 3
        /\ agent_objs[a].message_queue[1].message_id = <<"msg", 1>>
        /\ agent_objs[a].message_queue[2].message_id = <<"msg", 0>>
        /\ agent_objs[a].message_queue[3].message_id = <<"msg", 2>>
        /\ agent_objs[a].message_queue[1].priority = 2
        /\ agent_objs[a].message_queue[2].priority = 1
        /\ agent_objs[a].message_queue[3].priority = 1

\* AgentState
AgentStates ==
    {"dormant", "initializing", "active", "computing", "communicating", "learning",
     "error", "terminated"}

\* the documented changes of an agent's state
StateGraph ==
    {<<"dormant", "initializing">>, <<"initializing", "active">>,
     <<"active", "computing">>, <<"computing", "active">>,
     <<"active", "communicating">>, <<"communicating", "active">>,
     <<"active", "learning">>, <<"learning", "active">>}
        \cup {<<s, "terminated">> : s \in AgentStates \ {"terminated"}}

\* the states that n documented changes lead to from the states of from
RECURSIVE Reach(_, _)
Reach(from, n) ==
    IF n = 0 THEN from
    ELSE Reach(from \cup {g[2] : g \in {h \in StateGraph : h[1] \in from}}, n - 1)

\* C18: every change of an agent's state follows the documented graph; a run
\* between two suspensions may take several of its changes, and none of them
\* leaves terminated.
C18_StateGraphFollowed ==
    [][\A a \in 1..Len(agent_objs) :
            agent_objs'[a].state \in Reach({agent_objs[a].state}, Cardinality(AgentStates))]_vars

\* the except branch of the main loop of the a-th agent has run in the step
MainLoopRaised(a) ==
    agent_objs'[a].performance_metrics.errors_encountered
        > agent_objs[a].performance_metrics.errors_encountered

\* C19: when an exception occurs during a main-loop cycle of an agent whose
\* state is active, computing, communicating or learning, the agent's state
\* becomes error.
C19_ExceptionSetsError ==
    [][\A a \in 1..Len(agent_objs) :
            (/\ MainLoopRaised(a)
             /\ agent_objs[a].state \in {"active", "computing", "communicating", "learning"})
                => agent_objs'[a].state = "error"]_vars

\* the capability that _execute_assigned_task asks for a task type
Matching(task_type) ==
    IF task_type = "scrollmath_compute" THEN {"scrollmath_computation"}
    ELSE IF task_type = "pattern_analyze" THEN {"pattern_recognition"}
    ELSE IF task_type = "memory_process" THEN {"memory_processing"}
    ELSE {}

\* the a-th agent holds the capability for the task
Supports(a, content) == Matching(content.type) \cap agent_objs[a].profile.capabilities # {}

\* a cycle of the main loop of the a-th agent takes the only message of its
\* queue, a task assignment, in this step
TakesTask(a) ==
    /\ agent_objs[a].pc = "sleeping"
    /\ Len(agent_objs[a].message_queue) = 1
    /\ agent_objs[a].message_queue[1].message_type = "task_assignment"
    /\ agent_objs'[a].message_queue = <<>>

\* the task of the step is run: a scrollmath computation is suspended in its
\* sleep, the other tasks have completed
Executes(a, content) ==
    IF content.type = "scrollmath_compute"
    THEN agent_objs'[a].pc = "computing"
    ELSE agent_objs'[a].pc # "computing" /\ agent_objs'[a].last_result = "completed"

\* the task of the step is refused
Refuses(a) ==
    /\ agent_objs'[a].pc # "computing"
    /\ agent_objs'[a].last_result = "unsupported_task"
    /\ agent_objs'[a].local_memory = agent_objs[a].local_memory

\* C20: an agent runs a scrollmath_compute, pattern_analyze or memory_process
\* task only if it holds the matching capability; for a task whose
\* capability it lacks and for any other task type it returns the
\* unsupported result and leaves its local memory unchanged.
C20_TasksGatedByCapability ==
    [][\A a \in 1..Len(agent_objs) :
            TakesTask(a) =>
                IF Supports(a, agent_objs[a].message_queue[1].content)
                THEN Executes(a, agent_objs[a].message_queue[1].content)
                ELSE Refuses(a)]_vars

\* an agent without memory_processing has refused a memory_process task and
\* holds no memory, and an agent with it has stored the task's item
C20_RefusedAndStored ==
    \E a, b \in 1..Len(agent_objs) :
        /\ "memory_processing" \notin agent_objs[a].profile.capabilities
        /\ agent_objs[a].task_history = <<"t2">>
        /\ agent_objs[a].last_result = "unsupported_task"
        /\ agent_objs[a].local_memory = <<>>
        /\ "memory_processing" \in agent_objs[b].profile.capabilities
        /\ agent_objs[b].task_history = <<"t2">>
        /\ agent_objs[b].last_result = "completed"
        /\ Len(agent_objs[b].local_memory) = 1

\* a cycle of the main loop of the a-th agent runs a single memory_process
\* task in this step
RunsMemoryTask(a) ==
    /\ TakesTask(a)
    /\ agent_objs[a].message_queue[1].content.type = "memory_process"
    /\ "memory_processing" \in agent_objs[a].profile.capabilities

\* C21: an agent's local memory never holds more than memory_capacity
\* fragments; a step never removes or replaces a fragment of it; a
\* memory_process task stores its items while there is room, drops the
\* others, and reports as processed_items the number of items it stored.
C21_LocalMemoryBounded ==
    /\ [](\A a \in 1..Len(agent_objs) :
            Len(agent_objs[a].local_memory) <= agent_objs[a].profile.memory_capacity)
    /\ [][\A a \in 1..Len(agent_objs) :
            /\ Take(agent_objs'[a].local_memory, Len(agent_objs[a].local_memory))
                    = agent_objs[a].local_memory
            /\ RunsMemoryTask(a) =>
                /\ Len(agent_objs'[a].local_memory) =
                        Min(agent_objs[a].profile.memory_capacity,
                            Len(agent_objs[a].local_memory)
                                + Len(agent_objs[a].message_queue[1].content.memory_data))
                /\ agent_objs'[a].processed_items =
                        Len(agent_objs'[a].local_memory) - Len(agent_objs[a].local_memory)]_vars

\* an agent's memory is full after two tasks of two items each, and the
\* second task reported fewer items than it was given
C21_SecondTaskCutShort ==
    \E a \in 1..Len(agent_objs) :
        /\ Len(agent_objs[a].task_history) = 2
        /\ Len(agent_objs[a].local_memory) = agent_objs[a].profile.memory_capacity
        /\ agent_objs[a].processed_items < 2
        /\ agent_objs[a].last_result = "completed"

\* the a-th agent is one the lifecycle manager is to remove
ToBeRemoved(a) ==
    \/ agent_objs[a].state \in {"error", "terminated"}
    \/ agent_clock - agent_objs[a].last_activity > idle_limit

\* a sweep of the lifecycle manager is still to come in the run
SweepAhead == lifecycle_due <= MaxSweeps * agent_cleanup_interval

\* the step is a sweep of the lifecycle manager
Sweep == lifecycle_due' # lifecycle_due

\* C23: every registered agent that is in state error or terminated, or idle
\* for more than an hour, is removed from the registry by a later sweep of
\* the lifecycle manager, and a sweep removes no other agent.
C23_InactiveRemoved ==
    /\ \A a \in 1..MaxActivations :
            (a \in RegisteredAgents /\ ToBeRemoved(a) /\ SweepAhead)
                ~> (a \notin RegisteredAgents)
    /\ [][Sweep => \A a \in RegisteredAgents :
                        a \notin Range(agents') => ToBeRemoved(a)]_vars

\* the step is a swarm activation: profiles and agents are made in one call
SwarmStep == Len(agent_profiles') > Len(agent_profiles) /\ Len(agent_objs') > Len(agent_objs)

\* the ids activate_agent_swarm returns: the agents made by the call
SwarmIds == (Len(agent_objs) + 1)..Len(agent_objs')

\* C25: activate_agent_swarm(type, count, ...) returns count agent ids, and
\* every returned id is in the registry of the coordinator when the call
\* returns.
C25_SwarmRegistered ==
    [][SwarmStep =>
        /\ Cardinality(SwarmIds) = Len(agent_profiles') - Len(agent_profiles)
        /\ \A a \in SwarmIds : \E j \in 1..Len(agents') : agents'[j] = a]_vars

\* the messages of the a-th agent that are waiting in its queue or were counted
\* as handled
Accounted(objs, a) ==
    Len(objs[a].message_queue) + objs[a].performance_metrics.messages_processed

\* C34: an exception raised within a cycle of the agent main loop does not end
\* the loop (the loop runs its next cycle), and the message that was being
\* handled when the exception occurred is not lost: it is still queued or it
\* was counted as processed.
C34_ExceptionKeepsLoopAndMessage ==
    [][\A a \in 1..Len(agent_objs) : MainLoopRaised(a) =>
          /\ agent_objs'[a].pc = "sleeping"
          /\ Accounted(agent_objs', a) = Accounted(agent_objs, a)]_vars

\* the a-th agent made stays registered and is not terminated
Live(a) ==
    /\ a \in 1..Len(agent_objs)
    /\ \E j \in 1..Len(agents) : agents[j] = a
    /\ agent_objs[a].state # "terminated"

\* a message sent to the a-th agent waits in the broker or in the agent's queue
InFlight(a) ==
    /\ a \in 1..Len(agent_objs)
    /\ \/ \E j \in 1..Len(message_broker) : message_broker[j].receiver_id = AgentId(a)
       \/ \E j \in 1..Len(agent_objs[a].message_queue) :
              agent_objs[a].message_queue[j].receiver_id = AgentId(a)

\* the a-th agent has counted n messages as processed
Processed(a, n) == agent_objs[a].performance_metrics.messages_processed = n

\* C38: under fair scheduling, a message sent to a receiver that stays
\* registered and is not terminated is eventually taken from the broker, put
\* in the receiver's queue and handled by its main loop: the receiver's
\* messages_processed counter grows for it.
C38_SentIsEventuallyProcessed ==
    \A a \in 1..MaxActivations : \A n \in 0..MaxMessages :
        (Live(a) /\ InFlight(a) /\ Processed(a, n))
            ~> (~Live(a) \/ agent_objs[a].performance_metrics.messages_processed > n)

-----------------------------------------------------------------------------
(* Properties of the symbolic field computer *)

\* the value of the expression with each symbol bound by its name
ByName(expr, vector) == PolyValue(expr, vector, 1)

\* C26: evaluating a field at a vector binds x, y, z, t, s to the x, y, z,
\* temporal and symbolic components by name, whatever symbols an expression
\* uses, and the result has one entry per expression of the field.
C26_BoundByName ==
    (field_ret.op = "compute" /\ field_ret.field_id \in 1..Len(symbolic_fields)) =>
        /\ Len(field_ret.results) = Len(symbolic_fields[field_ret.field_id].expressions)
        /\ \A i \in 1..Len(field_ret.results) :
              field_ret.results[i] =
                  ByName(symbolic_fields[field_ret.field_id].expressions[i].expression,
                         field_ret.vector)
====
